---- MODULE Spec2Model ----
(***************************************************************************)
(* Model of the schedule parser of ocr_engine.py: process_image ->         *)
(* parse_schedule -> _bbox_map_parse, which rebuilds one person's row of   *)
(* shifts from OCR detections (bounding box, text, confidence).            *)
(*                                                                         *)
(* Representation.                                                         *)
(*   text        a sequence of one-character strings                       *)
(*   confidence  an integer number of hundredths (0.15 is 15)              *)
(*   cx          numerator over XDen = 4 * NumDays, so that both           *)
(*               sum(xs) / 4.0 and (i + 0.5) * img_w / 31 are exact        *)
(*   cy          numerator over YDen = 4 (sum(ys) / 4.0 is exact)          *)
(*   formatted dates and times are sequences of characters                 *)
(* Floating point is modelled as exact rational arithmetic.                *)
(*                                                                         *)
(* Specifications.                                                         *)
(*   Spec       one process_image call                                     *)
(*   TwiceSpec  a second call on the same image after the first            *)
(*   TolSpec    the tolerance estimate applied to two gap lists            *)
(*   RowSpec    one call on detections placed on the person row            *)
(*   UiSpec     HomeScreen of ui.py: uploads handed to worker threads, the *)
(*              results displayed, the shift reminders                     *)
(***************************************************************************)
EXTENDS Integers, Sequences, FiniteSets, TLC

VARIABLES
    pc,             \* position of the running process_image call
    img_w,          \* cv_img.shape[1]
    res,            \* what _run_easyocr returned
    tokens,         \* _bbox_map_parse: tokens
    target_candidates, \* _bbox_map_parse: target_candidates
    target,         \* _bbox_map_parse: target (a sequence holding none or one token)
    y_tol,          \* _bbox_map_parse: y_tol
    day_x_map,      \* _bbox_map_parse: day_x_map, indexed by day
    shift_tokens,   \* _bbox_map_parse: shift_tokens
    day_shift_map,  \* _bbox_map_parse: day_shift_map, in insertion order
    bbox_ret,       \* what _bbox_map_parse returned: "pending", "None", "parsed", "raised"
    parsed,         \* the parsed structure being built / returned
    info,           \* process_image: the kind of status message
    debug_writes,   \* the calls of _write_debug: <<tokens, parsed>> each
    median_gap,     \* _bbox_map_parse: median_gap (a sequence holding none or one gap)
    prior,          \* what an earlier process_image call on the same image returned
    gap_lists,      \* two lists of row-center gaps the tolerance is computed from
    gap_tols,       \* the tolerances computed from gap_lists
    ui_screen,      \* HomeScreen: what root_layout shows: "start", "chooser", "loading", "results"
    use_prefab_data, \* HomeScreen.use_prefab_data
    loading_event,  \* HomeScreen.loading_event: 0 for None, or the number of the interval
    loading_start_time, \* HomeScreen.loading_start_time (a sequence holding none or one instant)
    progress_bar,   \* HomeScreen.progress_bar.value (a sequence, empty while progress_bar is None)
    notification_events, \* HomeScreen.notification_events
    ocr_text,       \* HomeScreen.ocr_text
    home_parsed,    \* HomeScreen.parsed (a sequence holding none or one parsed structure)
    persisted_parsed, \* HomeScreen.persisted_parsed
    persisted_info, \* HomeScreen.persisted_info
    json_file,      \* the content of userdata/shifts.json (empty: no file)
    workers,        \* the Thread objects started, in order of their start
    uploads,        \* the number of HomeScreen.process_image calls made
    displays,       \* the number of _display_results calls made
    last_shown,     \* the upload whose result the last _display_results call was given (0: saved shifts)
    clock_posts,    \* kivy Clock: the callbacks scheduled with timeout 0, not yet run
    clock_events,   \* kivy Clock: the reminder events scheduled, neither run nor cancelled
    clock_intervals, \* kivy Clock: the interval events that are live
    now             \* the wall clock: datetime.datetime.now()

\* the state of ocr_engine
parse_vars == <<pc, img_w, res, tokens, target_candidates, target, y_tol,
                day_x_map, shift_tokens, day_shift_map, bbox_ret, parsed, info,
                debug_writes, median_gap, prior, gap_lists, gap_tols>>

\* the state of HomeScreen, of its worker threads and of the kivy Clock
home_vars == <<ui_screen, use_prefab_data, loading_event, loading_start_time,
               progress_bar, notification_events, ocr_text, home_parsed,
               persisted_parsed, persisted_info, json_file, workers, uploads,
               displays, last_shown, clock_posts, clock_events,
               clock_intervals, now>>

vars == <<parse_vars, home_vars>>

(***************************************************************************)
(* Bounds of the model                                                     *)
(***************************************************************************)
\* the longest detection list the OCR collaborator returns
MaxDet == 3

\* the longest detection list process_image is called on a second time
MaxTwiceDet == 2

\* the longest list of row-center gaps the tolerance is estimated from on its own
MaxGaps == 2

(***************************************************************************)
(* Program constants                                                       *)
(***************************************************************************)
\* days = list(range(1, 32))
NumDays == 31
days == [i \in 1..NumDays |-> i]

\* MIN_TOKEN_CONFIDENCE = 0.15, in hundredths
MIN_TOKEN_CONFIDENCE == 15

\* y_tol = 35 when fewer than two row centers exist
DefaultYTol == 35

\* max(25, ...)
MinYTol == 25

\* median_gap = ... if gaps else 40
DefaultGap == 40

\* timedelta(hours=8) and hours = 8 of the night branch
NightHours == 8

\* datetime(year, month, dt.day, 22, 0)
NightStartHour == 22

TARGET_NAME == <<"N","I","N","A"," ","A","R","O","N","O","V","A">>

\* SHIFT_MAP: code -> (shift_type, start_h, end_h)
SHIFT_MAP ==
    [c \in {"M", "T", "N"} |->
        CASE c = "M" -> [shift_type |-> "Morning", start_h |-> 6,  end_h |-> 14]
          [] c = "T" -> [shift_type |-> "Evening", start_h |-> 14, end_h |-> 22]
          [] c = "N" -> [shift_type |-> "Night",   start_h |-> 22, end_h |-> 6]]

XDen == 4 * NumDays
YDen == 4

(***************************************************************************)
(* Text: str.strip, str.upper, str.split, the "in" test and re.search      *)
(***************************************************************************)
LowerChars == <<"a","b","c","d","e","f","g","h","i","j","k","l","m",
                "n","o","p","q","r","s","t","u","v","w","x","y","z">>
UpperChars == <<"A","B","C","D","E","F","G","H","I","J","K","L","M",
                "N","O","P","Q","R","S","T","U","V","W","X","Y","Z">>
DigitChars == <<"0","1","2","3","4","5","6","7","8","9">>

IsSpace(c) == c = " "

\* one character of str.upper()
UpperChar(c) ==
    LET hit == {k \in 1..Len(LowerChars) : LowerChars[k] = c}
    IN  IF hit = {} THEN c ELSE UpperChars[CHOOSE k \in hit : TRUE]

\* text.upper()
Upper(s) == [k \in 1..Len(s) |-> UpperChar(s[k])]

\* text.strip(): leading and trailing whitespace removed
Strip(s) ==
    LET inked == {k \in 1..Len(s) : ~IsSpace(s[k])}
    IN  IF inked = {} THEN <<>>
        ELSE LET lo == CHOOSE k \in inked : \A j \in inked : k <= j
                 hi == CHOOSE k \in inked : \A j \in inked : k >= j
             IN  SubSeq(s, lo, hi)

\* needle in hay (substring test)
Contains(needle, hay) ==
    \E off \in 0..(Len(hay) - Len(needle)) :
        \A k \in 1..Len(needle) : hay[off + k] = needle[k]

\* TARGET_NAME.split()[0]: the first whitespace-delimited component
\* (the empty sequence stands for the IndexError of a blank name, which the
\* configured name never raises)
FirstWord(s) ==
    LET inked == {k \in 1..Len(s) : ~IsSpace(s[k])}
    IN  IF inked = {} THEN <<>>
        ELSE LET lo == CHOOSE k \in inked : \A j \in inked : k <= j
                 stops == {k \in lo..Len(s) : IsSpace(s[k])}
                 hi == IF stops = {} THEN Len(s)
                       ELSE (CHOOSE k \in stops : \A j \in stops : k <= j) - 1
             IN  SubSeq(s, lo, hi)

\* re.search(r"\d+", text) is not None
HasDigit(s) ==
    \E k \in 1..Len(s) : \E d \in 1..Len(DigitChars) : s[k] = DigitChars[d]

IsCodeChar(c) == c \in {"M", "T", "N"}

\* re.search(r"[MTN]", text.upper()) is not None
HasCode(s) == \E k \in 1..Len(s) : IsCodeChar(UpperChar(s[k]))

\* FirstCode taking the rightmost match
LastCode(s) ==
    LET hits == {k \in 1..Len(s) : IsCodeChar(UpperChar(s[k]))}
    IN  IF hits = {} THEN ""
        ELSE UpperChar(s[CHOOSE k \in hits : \A j \in hits : k >= j])

\* m.group(0) if m else "": the leftmost match of [MTN] in text.upper()
FirstCode(s) ==
    LET hits == {k \in 1..Len(s) : IsCodeChar(UpperChar(s[k]))}
    IN  IF hits = {} THEN ""
        ELSE UpperChar(s[CHOOSE k \in hits : \A j \in hits : k <= j])

(***************************************************************************)
(* Calendar: datetime.date, datetime.datetime, timedelta, strftime         *)
(***************************************************************************)
IsLeap(y) == (y % 4 = 0) /\ ((y % 100 # 0) \/ (y % 400 = 0))

DaysInMonth(y, m) ==
    IF m = 2 THEN (IF IsLeap(y) THEN 29 ELSE 28)
    ELSE IF m \in {4, 6, 9, 11} THEN 30 ELSE 31

\* ValidDate without the month's length: any day up to 31 passes
ValidDateAnyMonth(y, m, d) == m \in 1..12 /\ d >= 1 /\ d <= 31

\* date(year, month, day) does not raise ValueError
ValidDate(y, m, d) == m \in 1..12 /\ d >= 1 /\ d <= DaysInMonth(y, m)

\* AddHours with the day carried but not the month: the day after the last of
\* a month is not the first of the next
AddHoursNoMonthCarry(dt, h) ==
    LET hh == dt.hour + h
    IN  [year   |-> dt.year,
         month  |-> dt.month,
         day    |-> IF hh >= 24 THEN dt.day + 1 ELSE dt.day,
         hour   |-> hh % 24,
         minute |-> dt.minute]

\* start_dt + timedelta(hours=h), 0 <= h <= 24, carried into day, month, year
AddHours(dt, h) ==
    LET hh == dt.hour + h
        d1 == IF hh >= 24 THEN dt.day + 1 ELSE dt.day
        over == d1 > DaysInMonth(dt.year, dt.month)
        m1 == IF over THEN dt.month + 1 ELSE dt.month
    IN  [year   |-> IF m1 > 12 THEN dt.year + 1 ELSE dt.year,
         month  |-> IF m1 > 12 THEN 1 ELSE m1,
         day    |-> IF over THEN 1 ELSE d1,
         hour   |-> hh % 24,
         minute |-> dt.minute]

\* the decimal digits of n, zero-padded to width w (%Y, %m, %d, %H, %M)
RECURSIVE Digits(_, _)
Digits(n, w) ==
    IF w = 0 THEN <<>>
    ELSE Append(Digits(n \div 10, w - 1), DigitChars[(n % 10) + 1])

\* dt.isoformat() of a date, strftime("%Y-%m-%d")
FormatDate(y, m, d) ==
    Digits(y, 4) \o <<"-">> \o Digits(m, 2) \o <<"-">> \o Digits(d, 2)

\* strftime("%Y-%m-%d %H:%M")
FormatDateTime(dt) ==
    FormatDate(dt.year, dt.month, dt.day) \o <<" ">>
        \o Digits(dt.hour, 2) \o <<":">> \o Digits(dt.minute, 2)

\* date.toordinal(): days since 0001-01-01, that day being 1
RECURSIVE DaysBeforeMonth(_, _)
DaysBeforeMonth(y, m) ==
    IF m <= 1 THEN 0 ELSE DaysBeforeMonth(y, m - 1) + DaysInMonth(y, m - 1)

ToOrdinal(y, m, d) ==
    LET p == y - 1
    IN  p * 365 + (p \div 4) - (p \div 100) + (p \div 400) + DaysBeforeMonth(y, m) + d

\* strftime("%a")
DayName(y, m, d) ==
    <<"Mon", "Tue", "Wed", "Thu", "Fri", "Sat", "Sun">>[((ToOrdinal(y, m, d) + 6) % 7) + 1]

(***************************************************************************)
(* Sequence helpers standing for Python's list comprehension, sorted(),    *)
(* list.sort() (stable), min() and max() (first extremal element)          *)
(***************************************************************************)
SeqSum(q) ==
    LET F[k \in 0..Len(q)] == IF k = 0 THEN 0 ELSE F[k - 1] + q[k]
    IN  F[Len(q)]

\* [q[k] for k in range(len(q)) if k in keep], order kept
RECURSIVE Pick(_, _, _)
Pick(q, keep, k) ==
    IF k > Len(q) THEN <<>>
    ELSE IF k \in keep THEN <<q[k]>> \o Pick(q, keep, k + 1)
    ELSE Pick(q, keep, k + 1)

\* sorted(S) of a set of integers
RECURSIVE SortedSet(_)
SortedSet(S) ==
    IF S = {} THEN <<>>
    ELSE LET lo == CHOOSE a \in S : \A b \in S : a <= b
         IN  <<lo>> \o SortedSet(S \ {lo})

\* the permutation a stable ascending sort by key applies: position k of the
\* result holds q[StableOrder(key)[k]]
StableOrder(key) ==
    LET n == Len(key)
        Before(a, b) == key[a] < key[b] \/ (key[a] = key[b] /\ a < b)
        rank(a) == Cardinality({b \in 1..n : Before(b, a)}) + 1
    IN  [k \in 1..n |-> CHOOSE a \in 1..n : rank(a) = k]

(***************************************************************************)
(* _bbox_map_parse, step by step                                           *)
(***************************************************************************)
\* for bbox, text, conf in res: unpacking a detection that has not exactly
\* three fields raises ValueError
Unpackable(d) == d.nfields = 3

\* float(conf) raises for a confidence that is no number
FloatOk(d) == d.numeric

\* whether the ingestion loop raises
IngestRaises(r) == \E k \in 1..Len(r) : ~Unpackable(r[k]) \/ ~FloatOk(r[k])

\* DroppedLowConf dropping a confidence equal to the minimum as well
DroppedLowConfInclusive(d) == d.conf <= MIN_TOKEN_CONFIDENCE

\* float(conf) < MIN_TOKEN_CONFIDENCE: continue
DroppedLowConf(d) == d.conf < MIN_TOKEN_CONFIDENCE

\* cx = sum(xs_bbox) / 4.0, as a numerator over XDen
CenterX(bbox) == SeqSum([k \in 1..Len(bbox) |-> bbox[k][1]]) * NumDays

\* cy = sum(ys_bbox) / 4.0, as a numerator over YDen
CenterY(bbox) == SeqSum([k \in 1..Len(bbox) |-> bbox[k][2]])

MakeToken(d) ==
    [text |-> Strip(d.text), conf |-> d.conf,
     cx |-> CenterX(d.bbox), cy |-> CenterY(d.bbox)]

\* the token list the loop over res builds (no detection raising)
IngestTokens(r) ==
    LET kept == Pick(r, {k \in 1..Len(r) : ~DroppedLowConf(r[k])}, 1)
    IN  [k \in 1..Len(kept) |-> MakeToken(kept[k])]

\* TARGET_NAME.upper() in t["text"].upper()
MatchesFullName(t) == Contains(Upper(TARGET_NAME), Upper(t.text))

\* MatchesFirstName with the operands of "in" exchanged
MatchesFirstNameSwapped(t) ==
    LET first == FirstWord(TARGET_NAME)
    IN  first # <<>> /\ Contains(Upper(t.text), Upper(first))

\* first and first.upper() in t["text"].upper()
MatchesFirstName(t) ==
    LET first == FirstWord(TARGET_NAME)
    IN  first # <<>> /\ Contains(Upper(first), Upper(t.text))

\* TargetCandidates with both matches merged instead of the fallback
TargetCandidatesMerged(toks) ==
    Pick(toks, {k \in 1..Len(toks) :
                    MatchesFullName(toks[k]) \/ MatchesFirstName(toks[k])}, 1)

\* Step 1: target_candidates, full name first, the first name as fallback
TargetCandidates(toks) ==
    LET full == Pick(toks, {k \in 1..Len(toks) : MatchesFullName(toks[k])}, 1)
    IN  IF full # <<>> THEN full
        ELSE Pick(toks, {k \in 1..Len(toks) : MatchesFirstName(toks[k])}, 1)

\* MaxByConf keeping the last candidate of highest confidence
MaxByConfLast(cands) ==
    cands[CHOOSE k \in 1..Len(cands) :
            /\ \A j \in 1..Len(cands) : cands[j].conf <= cands[k].conf
            /\ \A j \in (k + 1)..Len(cands) : cands[j].conf < cands[k].conf]

\* max(target_candidates, key=conf): the first candidate of highest confidence
MaxByConf(cands) ==
    cands[CHOOSE k \in 1..Len(cands) :
            /\ \A j \in 1..Len(cands) : cands[j].conf <= cands[k].conf
            /\ \A j \in 1..(k - 1) : cands[j].conf < cands[k].conf]

\* int(round(cy)): Python rounds a half to the even neighbour
RoundCenter(cy) ==
    LET q == cy \div YDen
        r == cy % YDen
    IN  IF 2 * r < YDen THEN q
        ELSE IF 2 * r > YDen THEN q + 1
        ELSE IF q % 2 = 0 THEN q ELSE q + 1

\* ScaleGap rounding to the nearest integer instead of truncating
ScaleGapRounded(g) == (g * 8 + 5) \div 10

\* int(median_gap * 0.8): truncation
ScaleGap(g) == (g * 8) \div 10

\* ys_centers = sorted({int(round(t["cy"])) for t in tokens})
RowCenters(toks) == SortedSet({RoundCenter(toks[k].cy) : k \in 1..Len(toks)})

\* gaps = [ys_centers[i + 1] - ys_centers[i] for i in range(len(ys_centers) - 1)]
RowGaps(ys_centers) ==
    [k \in 1..(Len(ys_centers) - 1) |-> ys_centers[k + 1] - ys_centers[k]]

\* MedianGap taking the lower of the two middle gaps of an even number
MedianGapLowerMiddle(gaps) ==
    IF gaps # <<>>
    THEN gaps[StableOrder(gaps)[((Len(gaps) - 1) \div 2) + 1]]
    ELSE DefaultGap

\* MedianGap measuring the spread of the gaps instead of their middle
MedianGapSpread(gaps) ==
    IF gaps # <<>>
    THEN gaps[StableOrder(gaps)[Len(gaps)]] - gaps[StableOrder(gaps)[1]]
    ELSE DefaultGap

\* median_gap = sorted(gaps)[len(gaps) // 2] if gaps else 40
MedianGap(gaps) ==
    IF gaps # <<>>
    THEN gaps[StableOrder(gaps)[(Len(gaps) \div 2) + 1]]
    ELSE DefaultGap

\* y_tol = max(25, int(median_gap * 0.8))
GapTolerance(gaps) ==
    LET scaled == ScaleGap(MedianGap(gaps))
    IN  IF scaled > MinYTol THEN scaled ELSE MinYTol

\* RowTolerance estimating from a single row center already
RowToleranceFromOneRow(toks) ==
    LET ys_centers == RowCenters(toks)
    IN  IF Len(ys_centers) >= 1 THEN GapTolerance(RowGaps(ys_centers))
        ELSE DefaultYTol

\* Step 2: y_tol
RowTolerance(toks) ==
    LET ys_centers == RowCenters(toks)
    IN  IF Len(ys_centers) >= 2 THEN GapTolerance(RowGaps(ys_centers))
        ELSE DefaultYTol

\* t["cy"] < target_y - y_tol and re.search(r"\d+", t["text"])
IsDayToken(t, target_y, tol) == t.cy < target_y - tol * YDen /\ HasDigit(t.text)

\* DayTokens without the sort: the header tokens in detection order
DayTokensUnsorted(toks, target_y, tol) ==
    Pick(toks, {k \in 1..Len(toks) : IsDayToken(toks[k], target_y, tol)}, 1)

\* Step 3: day_tokens, sorted by cx (list.sort is stable)
DayTokens(toks, target_y, tol) ==
    LET found == Pick(toks, {k \in 1..Len(toks) : IsDayToken(toks[k], target_y, tol)}, 1)
        order == StableOrder([k \in 1..Len(found) |-> found[k].cx])
    IN  [k \in 1..Len(found) |-> found[order[k]]]

\* EvenAnchor at the left edge of the column instead of its middle
EvenAnchorLeftEdge(i, w) == ((2 * i) * w * XDen) \div (2 * Len(days))

\* (i + 0.5) * img_w / len(days) for the 0-based index i, as a numerator over XDen
EvenAnchor(i, w) == ((2 * i + 1) * w * XDen) \div (2 * Len(days))

\* Step 4: day_x_map, a function of the day
DayXMap(day_toks, w) ==
    [d \in {days[k] : k \in 1..Len(days)} |->
        LET i == (CHOOSE k \in 1..Len(days) : days[k] = d) - 1
        IN  IF day_toks # <<>>
            THEN (IF i < Len(day_toks) THEN day_toks[i + 1].cx ELSE EvenAnchor(i, w))
            ELSE EvenAnchor(i, w)]

Abs(a) == IF a < 0 THEN -a ELSE a

\* IsShiftToken with the two ends of the band belonging to it
IsShiftTokenInclusive(t, target_y, tol) ==
    Abs(t.cy - target_y) <= tol * YDen /\ HasCode(t.text)

\* abs(t["cy"] - target_y) < y_tol and re.search(r"[MTN]", t["text"].upper())
IsShiftToken(t, target_y, tol) == Abs(t.cy - target_y) < tol * YDen /\ HasCode(t.text)

\* Step 5: shift_tokens
ShiftTokens(toks, target_y, tol) ==
    Pick(toks, {k \in 1..Len(toks) : IsShiftToken(toks[k], target_y, tol)}, 1)

\* ClosestDay keeping the last day of the smallest distance
ClosestDayLast(t, dxm) ==
    LET dist == [k \in 1..Len(days) |-> Abs(t.cx - dxm[days[k]])]
        best[k \in 1..Len(days)] ==
            IF k = 1 THEN 1
            ELSE LET prev == best[k - 1]
                 IN  IF dist[k] <= dist[prev] THEN k ELSE prev
    IN  days[best[Len(days)]]

\* min(days, key=lambda d: abs(t["cx"] - day_x_map[d])): min() keeps the first
\* day of the smallest distance
ClosestDay(t, dxm) ==
    LET dist == [k \in 1..Len(days) |-> Abs(t.cx - dxm[days[k]])]
        best[k \in 1..Len(days)] ==
            IF k = 1 THEN 1
            ELSE LET prev == best[k - 1]
                 IN  IF dist[k] < dist[prev] THEN k ELSE prev
    IN  days[best[Len(days)]]

\* Replaces without the comparison of confidences: the last token wins
ReplacesAlways(dsm, day, conf) == TRUE

\* Replaces with a token of equal confidence replacing as well
ReplacesOnTie(dsm, day, conf) ==
    \A k \in 1..Len(dsm) : dsm[k].day = day => conf >= dsm[k].conf

\* closest_day not in day_shift_map or t["conf"] > day_shift_map[closest_day][1]
Replaces(dsm, day, conf) ==
    \A k \in 1..Len(dsm) : dsm[k].day = day => conf > dsm[k].conf

\* StoreShift moving a day whose assignment is replaced to the end
StoreShiftMoved(dsm, day, code, conf) ==
    Append(Pick(dsm, {k \in 1..Len(dsm) : dsm[k].day # day}, 1),
           [day |-> day, code |-> code, conf |-> conf])

\* day_shift_map[closest_day] = (code, conf): a dict keeps a key's first position
StoreShift(dsm, day, code, conf) ==
    IF \E k \in 1..Len(dsm) : dsm[k].day = day
    THEN [k \in 1..Len(dsm) |->
            IF dsm[k].day = day THEN [day |-> day, code |-> code, conf |-> conf]
            ELSE dsm[k]]
    ELSE Append(dsm, [day |-> day, code |-> code, conf |-> conf])

\* one turn of the loop of step 6
AssignOne(dsm, t, dxm) ==
    LET closest_day == ClosestDay(t, dxm)
        code == FirstCode(t.text)
    IN  IF code \in DOMAIN SHIFT_MAP /\ Replaces(dsm, closest_day, t.conf)
        THEN StoreShift(dsm, closest_day, code, t.conf)
        ELSE dsm

\* Step 6: day_shift_map
DayShiftMap(shift_toks, dxm) ==
    LET F[k \in 0..Len(shift_toks)] ==
            IF k = 0 THEN <<>> ELSE AssignOne(F[k - 1], shift_toks[k], dxm)
    IN  F[Len(shift_toks)]

\* start_dt of a shift on a valid day
ShiftStart(shift, year, month, day) ==
    IF shift.shift_type = "Night"
    THEN [year |-> year, month |-> month, day |-> day,
          hour |-> NightStartHour, minute |-> 0]
    ELSE [year |-> year, month |-> month, day |-> day,
          hour |-> shift.start_h, minute |-> 0]

\* ShiftEnd with the start hour written where the end hour belongs
ShiftEndAtStartHour(shift, year, month, day) ==
    IF shift.shift_type = "Night"
    THEN AddHours(ShiftStart(shift, year, month, day), NightHours)
    ELSE [year |-> year, month |-> month, day |-> day,
          hour |-> shift.start_h, minute |-> 0]

\* end_dt of a shift on a valid day
ShiftEnd(shift, year, month, day) ==
    IF shift.shift_type = "Night"
    THEN AddHours(ShiftStart(shift, year, month, day), NightHours)
    ELSE [year |-> year, month |-> month, day |-> day,
          hour |-> shift.end_h, minute |-> 0]

\* hours of a shift
ShiftHours(shift) ==
    IF shift.shift_type = "Night" THEN NightHours ELSE shift.end_h - shift.start_h

\* one turn of the loop of step 7: the record of (day, code), or nothing when
\* date(year, month, int(day)) raises
BuildRecord(day, code, year, month) ==
    LET shift == SHIFT_MAP[code]
    IN  IF ~ValidDate(year, month, day) THEN <<>>
        ELSE <<[person     |-> TARGET_NAME,
                date       |-> FormatDate(year, month, day),
                dow        |-> DayName(year, month, day),
                shift_code |-> code,
                shift_type |-> shift.shift_type,
                start      |-> FormatDateTime(ShiftStart(shift, year, month, day)),
                end        |-> FormatDateTime(ShiftEnd(shift, year, month, day)),
                hours      |-> ShiftHours(shift)]>>

\* BuildRecords leaving out the records an earlier call has returned already
BuildRecordsUnseen(dsm, year, month) ==
    LET F[k \in 0..Len(dsm)] ==
            IF k = 0 THEN <<>>
            ELSE F[k - 1] \o BuildRecord(dsm[k].day, dsm[k].code, year, month)
        seen == IF prior = <<>> THEN {}
                ELSE {prior[1].records[k] : k \in 1..Len(prior[1].records)}
    IN  Pick(F[Len(dsm)], {k \in 1..Len(F[Len(dsm)]) : F[Len(dsm)][k] \notin seen}, 1)

\* Step 7: parsed["records"], in the order of day_shift_map.items()
BuildRecords(dsm, year, month) ==
    LET F[k \in 0..Len(dsm)] ==
            IF k = 0 THEN <<>>
            ELSE F[k - 1] \o BuildRecord(dsm[k].day, dsm[k].code, year, month)
    IN  F[Len(dsm)]

\* the structure _bbox_map_parse and parse_schedule return
ParsedStruct(year, month, day_list, records) ==
    [person |-> TARGET_NAME, year |-> year, month |-> month,
     days |-> day_list, records |-> records]

\* _bbox_map_parse as a whole: what it returns for a detection list, an image
\* width and the date of the run
BboxMapParse(r, w, year, month) ==
    IF r = <<>> THEN [ret |-> "None", parsed |-> <<>>]
    ELSE IF IngestRaises(r) THEN [ret |-> "raised", parsed |-> <<>>]
    ELSE LET toks == IngestTokens(r)
             cands == TargetCandidates(toks)
         IN  IF cands = <<>> THEN [ret |-> "None", parsed |-> <<>>]
             ELSE LET target_y == MaxByConf(cands).cy
                      tol == RowTolerance(toks)
                      dxm == DayXMap(DayTokens(toks, target_y, tol), w)
                      dsm == DayShiftMap(ShiftTokens(toks, target_y, tol), dxm)
                  IN  [ret |-> "parsed",
                       parsed |-> <<ParsedStruct(year, month, days,
                                                 BuildRecords(dsm, year, month))>>]

\* WriteDebug writing nothing
WriteDebugSkipped(log, toks, result) == log

\* _write_debug(tokens, parsed): one more write of the tokens and the result
WriteDebug(log, toks, result) == Append(log, <<toks, result>>)

\* EmptyResult with an empty day list, as process_image's except branch builds
EmptyResultNoDays(year, month) == ParsedStruct(year, month, <<>>, <<>>)

\* parse_schedule's structure for a parse that returned None
EmptyResult(year, month) == ParsedStruct(year, month, days, <<>>)

\* process_image's structure for a parse that raised
ErrorResult(year, month) == ParsedStruct(year, month, <<>>, <<>>)

(***************************************************************************)
(* The inputs: what the OCR collaborator may return, and the dates         *)
(* date.today() may fall in                                                *)
(***************************************************************************)
\* a detection's bounding box, four corner points clockwise from the top left
Box(x, y) == << <<x, y>>, <<x + 2, y>>, <<x + 2, y + 8>>, <<x, y + 8>> >>

\* a box one pixel taller: its centre lies half a pixel lower
TallBox(x, y) == << <<x, y>>, <<x + 2, y>>, <<x + 2, y + 9>>, <<x, y + 9>> >>

Detection(text, conf, x, y) ==
    [nfields |-> 3, numeric |-> TRUE, bbox |-> Box(x, y), text |-> text, conf |-> conf]

Detections ==
    {   \* the person's row label, in full and by first name only
        Detection(TARGET_NAME, 15, 0, 40),
        Detection(<<"n","i","n","a"," ","x">>, 90, 0, 40),
        \* the first name again, as confident, its centre half a pixel lower
        [Detection(<<"N","i","n","a">>, 90, 0, 40) EXCEPT !.bbox = TallBox(0, 40)],
        \* day numbers of the header row
        Detection(<<"7">>, 90, 0, 3),
        Detection(<<"2","9">>, 90, 56, 0),
        \* shift codes of the person's row
        Detection(<<"M">>, 90, 56, 40),
        Detection(<<"N">>, 15, 56, 40),
        Detection(<<"t","m">>, 90, 57, 40),
        Detection(<<" ","N"," ">>, 90, 60, 40),
        \* a day number with a code letter, between the two rows
        Detection(<<"3","T">>, 90, 60, 15),
        \* below the confidence floor: the first name with a code, on a row of its own
        Detection(<<"N","I","N","A"," ","M">>, 10, 60, 50),
        \* malformed: two fields only, and a confidence that is no number
        [Detection(<<"M">>, 90, 60, 40) EXCEPT !.nfields = 2],
        [Detection(<<"M">>, 90, 60, 40) EXCEPT !.numeric = FALSE]
    }

DetectionLists == UNION {[1..n -> Detections] : n \in 0..MaxDet}

ImageWidths == {62}

\* <<year, month>> of date.today()
Todays == {<<2024, 2>>, <<2025, 2>>, <<2025, 12>>}

NoParsed == <<>>

(***************************************************************************)
(* The state machine: one process_image call                               *)
(***************************************************************************)
\* before process_image is called
ParserInit ==
    /\ pc = "ocr"
    /\ img_w = 0
    /\ res = <<>>
    /\ tokens = <<>>
    /\ target_candidates = <<>>
    /\ target = <<>>
    /\ y_tol = 0
    /\ day_x_map = <<>>
    /\ shift_tokens = <<>>
    /\ day_shift_map = <<>>
    /\ bbox_ret = "pending"
    /\ parsed = NoParsed
    /\ info = "none"
    /\ debug_writes = <<>>
    /\ median_gap = <<>>
    /\ prior = <<>>

\* no HomeScreen has been constructed: ocr_engine is used on its own
HomeNotBuilt ==
    /\ ui_screen = "start"
    /\ use_prefab_data = FALSE
    /\ loading_event = 0
    /\ loading_start_time = <<>>
    /\ progress_bar = <<>>
    /\ notification_events = <<>>
    /\ ocr_text = "none"
    /\ home_parsed = <<>>
    /\ persisted_parsed = <<>>
    /\ persisted_info = "none"
    /\ json_file = <<>>
    /\ workers = <<>>
    /\ uploads = 0
    /\ displays = 0
    /\ last_shown = 0
    /\ clock_posts = <<>>
    /\ clock_events = {}
    /\ clock_intervals = {}
    /\ now = <<>>

Init ==
    /\ ParserInit
    /\ gap_lists = <<>>
    /\ gap_tols = <<>>
    /\ HomeNotBuilt

\* res = _run_easyocr(cv_img, detail=1)
RunEasyOCR ==
    /\ pc = "ocr"
    /\ \E r \in DetectionLists, w \in ImageWidths :
          /\ res' = r
          /\ img_w' = w
    /\ pc' = "ingest"
    /\ UNCHANGED <<tokens, target_candidates, target, y_tol, day_x_map,
                   shift_tokens, day_shift_map, bbox_ret, parsed, info,
                   debug_writes>>
    /\ UNCHANGED <<median_gap, prior, gap_lists, gap_tols>>
    /\ UNCHANGED home_vars

\* if not res: return None
NoDetections ==
    /\ pc = "ingest"
    /\ res = <<>>
    /\ bbox_ret' = "None"
    /\ pc' = "bbox_done"
    /\ UNCHANGED <<img_w, res, tokens, target_candidates, target, y_tol,
                   day_x_map, shift_tokens, day_shift_map, parsed, info,
                   debug_writes>>
    /\ UNCHANGED <<median_gap, prior, gap_lists, gap_tols>>
    /\ UNCHANGED home_vars

\* the loop over res raises on a malformed detection; the tokens built so far
\* are lost with the frame
IngestRaise ==
    /\ pc = "ingest"
    /\ res # <<>>
    /\ IngestRaises(res)
    /\ bbox_ret' = "raised"
    /\ pc' = "bbox_done"
    /\ UNCHANGED <<img_w, res, tokens, target_candidates, target, y_tol,
                   day_x_map, shift_tokens, day_shift_map, parsed, info,
                   debug_writes>>
    /\ UNCHANGED <<median_gap, prior, gap_lists, gap_tols>>
    /\ UNCHANGED home_vars

\* the loop over res builds tokens
Ingest ==
    /\ pc = "ingest"
    /\ res # <<>>
    /\ ~IngestRaises(res)
    /\ tokens' = IngestTokens(res)
    /\ pc' = "locate"
    /\ UNCHANGED <<img_w, res, target_candidates, target, y_tol, day_x_map,
                   shift_tokens, day_shift_map, bbox_ret, parsed, info,
                   debug_writes>>
    /\ UNCHANGED <<median_gap, prior, gap_lists, gap_tols>>
    /\ UNCHANGED home_vars

\* Step 1, if not target_candidates: return None
PersonNotFound ==
    /\ pc = "locate"
    /\ TargetCandidates(tokens) = <<>>
    /\ target_candidates' = TargetCandidates(tokens)
    /\ bbox_ret' = "None"
    /\ pc' = "bbox_done"
    /\ UNCHANGED <<img_w, res, tokens, target, y_tol, day_x_map, shift_tokens,
                   day_shift_map, parsed, info, debug_writes>>
    /\ UNCHANGED <<median_gap, prior, gap_lists, gap_tols>>
    /\ UNCHANGED home_vars

\* Step 1: target, target_y
LocateRow ==
    /\ pc = "locate"
    /\ TargetCandidates(tokens) # <<>>
    /\ target_candidates' = TargetCandidates(tokens)
    /\ target' = <<MaxByConf(target_candidates')>>
    /\ pc' = "tolerance"
    /\ UNCHANGED <<img_w, res, tokens, y_tol, day_x_map, shift_tokens,
                   day_shift_map, bbox_ret, parsed, info, debug_writes>>
    /\ UNCHANGED <<median_gap, prior, gap_lists, gap_tols>>
    /\ UNCHANGED home_vars

\* Step 2
EstimateTolerance ==
    /\ pc = "tolerance"
    /\ y_tol' = RowTolerance(tokens)
    /\ median_gap' = IF Len(RowCenters(tokens)) >= 2
                     THEN <<MedianGap(RowGaps(RowCenters(tokens)))>>
                     ELSE <<>>
    /\ pc' = "anchors"
    /\ UNCHANGED <<img_w, res, tokens, target_candidates, target, day_x_map,
                   shift_tokens, day_shift_map, bbox_ret, parsed, info,
                   debug_writes>>
    /\ UNCHANGED <<prior, gap_lists, gap_tols>>
    /\ UNCHANGED home_vars

\* Steps 3 and 4
BuildAnchors ==
    /\ pc = "anchors"
    /\ day_x_map' = DayXMap(DayTokens(tokens, target[1].cy, y_tol), img_w)
    /\ pc' = "assign"
    /\ UNCHANGED <<img_w, res, tokens, target_candidates, target, y_tol,
                   shift_tokens, day_shift_map, bbox_ret, parsed, info,
                   debug_writes>>
    /\ UNCHANGED <<median_gap, prior, gap_lists, gap_tols>>
    /\ UNCHANGED home_vars

\* Steps 5 and 6
AssignCells ==
    /\ pc = "assign"
    /\ shift_tokens' = ShiftTokens(tokens, target[1].cy, y_tol)
    /\ day_shift_map' = DayShiftMap(shift_tokens', day_x_map)
    /\ pc' = "build"
    /\ UNCHANGED <<img_w, res, tokens, target_candidates, target, y_tol,
                   day_x_map, bbox_ret, parsed, info, debug_writes>>
    /\ UNCHANGED <<median_gap, prior, gap_lists, gap_tols>>
    /\ UNCHANGED home_vars

\* Step 7, _write_debug(tokens, parsed) and return parsed
BuildParsed ==
    /\ pc = "build"
    /\ \E today \in Todays :
          parsed' = <<ParsedStruct(today[1], today[2], days,
                                   BuildRecords(day_shift_map, today[1], today[2]))>>
    /\ debug_writes' = WriteDebug(debug_writes, tokens, parsed'[1])
    /\ bbox_ret' = "parsed"
    /\ pc' = "bbox_done"
    /\ UNCHANGED <<img_w, res, tokens, target_candidates, target, y_tol,
                   day_x_map, shift_tokens, day_shift_map, info>>
    /\ UNCHANGED <<median_gap, prior, gap_lists, gap_tols>>
    /\ UNCHANGED home_vars

\* parse_schedule: the empty structure when _bbox_map_parse returned None
\* (year and month are those date.today() gave when parse_schedule began)
ParseScheduleEmpty ==
    /\ pc = "bbox_done"
    /\ bbox_ret = "None"
    /\ \E today \in Todays :
          parsed' = <<EmptyResult(today[1], today[2])>>
    /\ pc' = "ps_done"
    /\ UNCHANGED <<img_w, res, tokens, target_candidates, target, y_tol,
                   day_x_map, shift_tokens, day_shift_map, bbox_ret, info,
                   debug_writes>>
    /\ UNCHANGED <<median_gap, prior, gap_lists, gap_tols>>
    /\ UNCHANGED home_vars

\* parse_schedule: return parsed
ParseScheduleReturn ==
    /\ pc = "bbox_done"
    /\ bbox_ret = "parsed"
    /\ pc' = "ps_done"
    /\ UNCHANGED <<img_w, res, tokens, target_candidates, target, y_tol,
                   day_x_map, shift_tokens, day_shift_map, bbox_ret, parsed,
                   info, debug_writes>>
    /\ UNCHANGED <<median_gap, prior, gap_lists, gap_tols>>
    /\ UNCHANGED home_vars

\* process_image: except Exception around parse_schedule
ProcessImageCatch ==
    /\ pc = "bbox_done"
    /\ bbox_ret = "raised"
    /\ \E today \in Todays :
          parsed' = <<ErrorResult(today[1], today[2])>>
    /\ info' = "error"
    /\ pc' = "done"
    /\ UNCHANGED <<img_w, res, tokens, target_candidates, target, y_tol,
                   day_x_map, shift_tokens, day_shift_map, bbox_ret,
                   debug_writes>>
    /\ UNCHANGED <<median_gap, prior, gap_lists, gap_tols>>
    /\ UNCHANGED home_vars

\* process_image: the status message, save_outputs(parsed), return
ProcessImageReturn ==
    /\ pc = "ps_done"
    /\ info' = IF parsed[1].records # <<>> THEN "parsed shifts" ELSE "no shifts parsed"
    /\ pc' = "done"
    /\ UNCHANGED <<img_w, res, tokens, target_candidates, target, y_tol,
                   day_x_map, shift_tokens, day_shift_map, bbox_ret, parsed,
                   debug_writes>>
    /\ UNCHANGED <<median_gap, prior, gap_lists, gap_tols>>
    /\ UNCHANGED home_vars

\* the steps of process_image after the OCR collaborator has answered
ParseSteps ==
    \/ NoDetections
    \/ IngestRaise
    \/ Ingest
    \/ PersonNotFound
    \/ LocateRow
    \/ EstimateTolerance
    \/ BuildAnchors
    \/ AssignCells
    \/ BuildParsed
    \/ ParseScheduleEmpty
    \/ ParseScheduleReturn
    \/ ProcessImageCatch
    \/ ProcessImageReturn

Next ==
    \/ RunEasyOCR
    \/ ParseSteps

Spec == Init /\ [][Next]_vars

(***************************************************************************)
(* One process_image call on an image whose person label stands in the     *)
(* last column, among shift codes of that column                           *)
(***************************************************************************)
\* the longest detection list of such an image
MaxRowDet == 3

RowDetections ==
    {   \* the person's first name, in the column of day 31
        Detection(<<"N","i","n","a">>, 90, 60, 40),
        \* codes of the same column: as confident, and more confident
        Detection(<<"M">>, 90, 60, 40),
        Detection(<<"T">>, 95, 60, 40),
        \* a code of the first column
        Detection(<<"M">>, 90, 0, 40),
        \* two codes in one token, midway between the anchors of days 29 and 30
        Detection(<<"t","m">>, 90, 57, 40),
        \* malformed: two fields only
        [Detection(<<"M">>, 90, 60, 40) EXCEPT !.nfields = 2]
    }

RowDetectionLists == UNION {[1..n -> RowDetections] : n \in 0..MaxRowDet}

\* res = _run_easyocr(cv_img, detail=1)
RunEasyOCROnRow ==
    /\ pc = "ocr"
    /\ \E r \in RowDetectionLists, w \in ImageWidths :
          /\ res' = r
          /\ img_w' = w
    /\ pc' = "ingest"
    /\ UNCHANGED <<tokens, target_candidates, target, y_tol, day_x_map,
                   shift_tokens, day_shift_map, bbox_ret, parsed, info,
                   debug_writes>>
    /\ UNCHANGED <<median_gap, prior, gap_lists, gap_tols>>
    /\ UNCHANGED home_vars

RowNext ==
    \/ RunEasyOCROnRow
    \/ ParseSteps

RowSpec == Init /\ [][RowNext]_vars

(***************************************************************************)
(* process_image called twice on one image, the OCR collaborator returning *)
(* the same detections both times                                          *)
(***************************************************************************)
\* the first call has returned; the second begins with a fresh frame and
\* res = _run_easyocr(cv_img, detail=1) as before
ProcessImageAgain ==
    /\ pc = "done"
    /\ prior = <<>>
    /\ Len(res) <= MaxTwiceDet
    /\ prior' = parsed
    /\ pc' = "ingest"
    /\ tokens' = <<>>
    /\ target_candidates' = <<>>
    /\ target' = <<>>
    /\ y_tol' = 0
    /\ median_gap' = <<>>
    /\ day_x_map' = <<>>
    /\ shift_tokens' = <<>>
    /\ day_shift_map' = <<>>
    /\ bbox_ret' = "pending"
    /\ parsed' = NoParsed
    /\ info' = "none"
    /\ UNCHANGED <<img_w, res, debug_writes, gap_lists, gap_tols>>
    /\ UNCHANGED home_vars

TwiceNext ==
    \/ Next
    \/ ProcessImageAgain

TwiceSpec == Init /\ [][TwiceNext]_vars

(***************************************************************************)
(* The tolerance estimate on its own: max(25, int(median_gap * 0.8)) as a  *)
(* function of the gap list, applied to two gap lists of one length        *)
(***************************************************************************)
\* gaps between sorted distinct integers: positive integers
GapValues == {3, 30, 37, 40, 60, 74}

GapLists == UNION {[1..n -> GapValues] : n \in 1..MaxGaps}

GapListPairs == {<<a, b>> : a, b \in GapLists}

TolInit ==
    /\ ParserInit
    /\ gap_lists \in {ab \in GapListPairs : Len(ab[1]) = Len(ab[2])}
    /\ gap_tols = <<>>
    /\ HomeNotBuilt

\* median_gap and y_tol of each of the two gap lists
EstimateFromGaps ==
    /\ gap_lists # <<>>
    /\ gap_tols = <<>>
    /\ gap_tols' = <<GapTolerance(gap_lists[1]), GapTolerance(gap_lists[2])>>
    /\ UNCHANGED <<pc, img_w, res, tokens, target_candidates, target, y_tol,
                   day_x_map, shift_tokens, day_shift_map, bbox_ret, parsed,
                   info, debug_writes, median_gap, prior, gap_lists>>
    /\ UNCHANGED home_vars

TolNext == EstimateFromGaps

TolSpec == TolInit /\ [][TolNext]_vars

(***************************************************************************)
(* HomeScreen (ui.py): the upload hand-off to a worker thread and the      *)
(* shift reminders.  Instants are counted in minutes.  The controls the    *)
(* user can reach are the ones root_layout or the open popup holds; file   *)
(* system operations succeed.                                              *)
(***************************************************************************)
\* the process_image calls of HomeScreen in one run
MaxUploads == 2

\* the _display_results calls in one run
MaxDisplays == 3

\* timedelta(minutes=45)
ReminderLeadMinutes == 45

\* minutes in a day
DayMinutes == 1440

\* a number that grows with the instant dt: the order of datetime values
Stamp(dt) ==
    ((((dt.year * 12 + (dt.month - 1)) * 31 + (dt.day - 1)) * 24 + dt.hour) * 60)
        + dt.minute

\* a < b on datetime values
Before(a, b) == Stamp(a) < Stamp(b)

\* dt - timedelta(minutes=m), 0 <= m <= DayMinutes, borrowed from day, month, year
SubMinutes(dt, m) ==
    LET total == dt.hour * 60 + dt.minute - m
        back  == total < 0
        t     == IF back THEN total + DayMinutes ELSE total
        d1    == IF back THEN dt.day - 1 ELSE dt.day
        under == d1 < 1
        m1    == IF under THEN dt.month - 1 ELSE dt.month
        y1    == IF m1 < 1 THEN dt.year - 1 ELSE dt.year
        m2    == IF m1 < 1 THEN 12 ELSE m1
    IN  [year   |-> y1,
         month  |-> m2,
         day    |-> IF under THEN DaysInMonth(y1, m2) ELSE d1,
         hour   |-> t \div 60,
         minute |-> t % 60]

\* a non-empty run of decimal digits
IsDigits(s) == Len(s) > 0 /\ \A k \in 1..Len(s) : \E d \in 1..10 : DigitChars[d] = s[k]

\* int(s) of a run of decimal digits
ToNumber(s) ==
    LET F[k \in 0..Len(s)] ==
            IF k = 0 THEN 0
            ELSE LET prev == F[k - 1]
                 IN  prev * 10 + (CHOOSE d \in 0..9 : DigitChars[d + 1] = s[k])
    IN  F[Len(s)]

\* datetime.strptime(s, "%Y-%m-%d").date(): a sequence holding the date, or
\* nothing where strptime raises ValueError
StrpDate(s) ==
    LET dashes == SortedSet({k \in 1..Len(s) : s[k] = "-"})
    IN  IF Len(dashes) # 2 THEN <<>>
        ELSE LET y == SubSeq(s, 1, dashes[1] - 1)
                 m == SubSeq(s, dashes[1] + 1, dashes[2] - 1)
                 d == SubSeq(s, dashes[2] + 1, Len(s))
             IN  IF /\ IsDigits(y) /\ Len(y) = 4
                    /\ IsDigits(m) /\ Len(m) <= 2
                    /\ IsDigits(d) /\ Len(d) <= 2
                    /\ ToNumber(y) >= 1
                    /\ ValidDate(ToNumber(y), ToNumber(m), ToNumber(d))
                 THEN <<[year |-> ToNumber(y), month |-> ToNumber(m), day |-> ToNumber(d)]>>
                 ELSE <<>>

\* delay = (notify_at - now).total_seconds() is positive
InFuture(notify_at, t) == Before(t, notify_at)

\* one turn of the loop of _schedule_shift_notifications at the instant t:
\* the event Clock.schedule_once returns, or nothing where the loop continues
ReminderOf(record, k, t, by) ==
    IF record.date = <<>> \/ record.shift_code \notin DOMAIN SHIFT_MAP THEN <<>>
    ELSE LET shift_date == StrpDate(record.date)
         IN  IF shift_date = <<>> THEN <<>>
             ELSE LET start_dt == [year   |-> shift_date[1].year,
                                   month  |-> shift_date[1].month,
                                   day    |-> shift_date[1].day,
                                   hour   |-> SHIFT_MAP[record.shift_code].start_h,
                                   minute |-> 0]
                      notify_at == SubMinutes(start_dt, ReminderLeadMinutes)
                  IN  IF ~InFuture(notify_at, t) THEN <<>>
                      ELSE <<[rec |-> record, k |-> k, starts |-> start_dt,
                              at |-> notify_at, made |-> t, by |-> by]>>

\* the events _schedule_shift_notifications appends for a held result at the
\* instant t, in the order of the records
Reminders(held, t, by) ==
    IF held = <<>> THEN <<>>
    ELSE LET recs == held[1].records
             F[k \in 0..Len(recs)] ==
                 IF k = 0 THEN <<>>
                 ELSE LET prev == F[k - 1]
                      IN  prev \o ReminderOf(recs[k], k, t, by)
         IN  F[Len(recs)]

\* _clear_notifications without event.cancel()
CancelNone(pending, events) == pending

\* _clear_notifications: event.cancel() of every event of the list
CancelAll(pending, events) == pending \ {events[k] : k \in 1..Len(events)}

\* loading_event.cancel() where loading_event is set
CancelLoading(live, event) == IF event # 0 THEN live \ {event} ELSE live

\* datetime(y, m, d, h, mi)
At(y, m, d, h, mi) == [year |-> y, month |-> m, day |-> d, hour |-> h, minute |-> mi]

\* the instants the wall clock is read at
Instants ==
    { At(2025, 12, 1, 0, 0), At(2025, 12, 30, 5, 14), At(2025, 12, 30, 5, 15),
      At(2025, 12, 31, 21, 14), At(2026, 1, 5, 0, 0) }

\* a parse of December 2025 with a morning shift on the 30th and a night
\* shift on the 31st
DecemberShifts ==
    ParsedStruct(2025, 12, days,
                 BuildRecord(30, "M", 2025, 12) \o BuildRecord(31, "N", 2025, 12))

\* a parse of December 2025 with an evening shift on the 31st
NewYearsEveShift ==
    ParsedStruct(2025, 12, days, BuildRecord(31, "T", 2025, 12))

\* what ocr_engine.process_image returns to the worker: (_, info, parsed)
UploadOutcomes ==
    { [info |-> "Status: file missing", parsed |-> <<>>],
      [info |-> "Status: no shifts parsed", parsed |-> <<EmptyResult(2025, 12)>>],
      [info |-> "Status: parsed shifts", parsed |-> <<DecemberShifts>>],
      [info |-> "Status: parsed shifts", parsed |-> <<NewYearsEveShift>>] }

\* a record as the prefab data writes it
PrefabRecord(date, code) ==
    [person |-> TARGET_NAME, date |-> date, shift_code |-> code,
     shift_type |-> IF code \in DOMAIN SHIFT_MAP THEN SHIFT_MAP[code].shift_type
                    ELSE "Shift",
     hours |-> 8]

\* FALLBACK_SAMPLE_PARSED, its last two records
FALLBACK_SAMPLE_PARSED ==
    ParsedStruct(2025, 12, days,
                 << PrefabRecord(FormatDate(2025, 12, 24), "N"),
                    PrefabRecord(FormatDate(2025, 12, 28), "M") >>)

\* a shifts.json edited by hand: a record without a date, one with a code
\* SHIFT_MAP does not know, one with a date that does not exist, one in order
EditedShifts ==
    ParsedStruct(2025, 12, days,
                 << PrefabRecord(<<>>, "M"),
                    PrefabRecord(FormatDate(2025, 12, 30), "X"),
                    PrefabRecord(<<"2","0","2","5","-","0","2","-","3","0">>, "T"),
                    PrefabRecord(FormatDate(2025, 12, 31), "T") >>)

\* what userdata/shifts.json holds when the application starts
SavedFiles == { <<>>, <<DecemberShifts>>, <<EditedShifts>> }

\* ocr_engine.load_sample_parsed()
LoadSampleParsed == FALLBACK_SAMPLE_PARSED

\* ocr_engine.load_saved_outputs(use_prefab_data): (info, parsed)
LoadSavedOutputs(file, prefab) ==
    IF file # <<>>
    THEN [info |-> "Loaded saved shifts from your last upload.", parsed |-> file]
    ELSE IF prefab
         THEN [info |-> "Loaded prefab sample shifts.", parsed |-> <<LoadSampleParsed>>]
         ELSE [info |-> "Upload an image to get started.", parsed |-> <<>>]

\* the values _update_loading_progress computes from the time elapsed
ProgressValues == {50, 100}

\* HomeScreen.__init__: nothing is loading, no reminder is scheduled, the saved
\* shifts are loaded and the start menu is built
HomeInit ==
    /\ use_prefab_data \in BOOLEAN
    /\ json_file \in SavedFiles
    /\ now \in Instants
    /\ ui_screen = "start"
    /\ loading_event = 0
    /\ loading_start_time = <<>>
    /\ progress_bar = <<>>
    /\ notification_events = <<>>
    /\ ocr_text = ""
    /\ home_parsed = <<>>
    /\ persisted_parsed = LoadSavedOutputs(json_file, use_prefab_data).parsed
    /\ persisted_info = LoadSavedOutputs(json_file, use_prefab_data).info
    /\ workers = <<>>
    /\ uploads = 0
    /\ displays = 0
    /\ last_shown = 0
    /\ clock_posts = <<>>
    /\ clock_events = {}
    /\ clock_intervals = {}

UiInit ==
    /\ ParserInit
    /\ gap_lists = <<>>
    /\ gap_tols = <<>>
    /\ HomeInit

\* the start menu's "Upload New Image": open_filechooser opens the popup
OpenFileChooser ==
    /\ ui_screen = "start"
    /\ uploads < MaxUploads
    /\ displays < MaxDisplays
    /\ ui_screen' = "chooser"
    /\ UNCHANGED <<use_prefab_data, loading_event, loading_start_time,
                   progress_bar, notification_events, ocr_text, home_parsed,
                   persisted_parsed, persisted_info, json_file, workers,
                   uploads, displays, last_shown, clock_posts, clock_events,
                   clock_intervals, now>>
    /\ UNCHANGED parse_vars

\* the popup's "Cancel": cancel_file dismisses it
CancelFile ==
    /\ ui_screen = "chooser"
    /\ ui_screen' = "start"
    /\ UNCHANGED <<use_prefab_data, loading_event, loading_start_time,
                   progress_bar, notification_events, ocr_text, home_parsed,
                   persisted_parsed, persisted_info, json_file, workers,
                   uploads, displays, last_shown, clock_posts, clock_events,
                   clock_intervals, now>>
    /\ UNCHANGED parse_vars

\* the popup's "Select": select_file calls HomeScreen.process_image, which
\* shows the loading state, starts the progress interval and one Thread
SelectFile ==
    /\ ui_screen = "chooser"
    /\ clock_events' = CancelAll(clock_events, notification_events)
    /\ notification_events' = <<>>
    /\ progress_bar' = <<0>>
    /\ ui_screen' = "loading"
    /\ loading_start_time' = <<now>>
    /\ loading_event' = uploads + 1
    /\ clock_intervals' = clock_intervals \cup {uploads + 1}
    /\ workers' = Append(workers, [pc |-> "run", info |-> "", parsed |-> <<>>,
                                   shown |-> 0])
    /\ uploads' = uploads + 1
    /\ UNCHANGED <<use_prefab_data, ocr_text, home_parsed, persisted_parsed,
                   persisted_info, json_file, displays, last_shown,
                   clock_posts, now>>
    /\ UNCHANGED parse_vars

\* the Clock runs _update_loading_progress of a live interval; returning
\* False ends the interval
LoadingProgress ==
    /\ \E event \in clock_intervals :
          IF progress_bar = <<>> \/ loading_start_time = <<>>
          THEN /\ clock_intervals' = clock_intervals \ {event}
               /\ UNCHANGED progress_bar
          ELSE \E progress \in ProgressValues :
                  /\ progress >= progress_bar[1]
                  /\ progress_bar' = <<progress>>
                  /\ clock_intervals' = IF progress < 100 THEN clock_intervals
                                        ELSE clock_intervals \ {event}
    /\ UNCHANGED <<ui_screen, use_prefab_data, loading_event,
                   loading_start_time, notification_events, ocr_text,
                   home_parsed, persisted_parsed, persisted_info, json_file,
                   workers, uploads, displays, last_shown, clock_posts,
                   clock_events, now>>
    /\ UNCHANGED parse_vars

\* _process_image_background, first part: the prefab data or
\* ocr_engine.process_image(file_path), which saves what it parsed
WorkerProcess ==
  \E i \in 1..Len(workers) :
    /\ workers[i].pc = "run"
    /\ IF use_prefab_data
       THEN /\ workers' = [workers EXCEPT ![i].pc = "sleep",
                               ![i].info = "Loaded prefab schedule for demo mode.",
                               ![i].parsed = <<LoadSampleParsed>>]
            /\ UNCHANGED json_file
       ELSE \E outcome \in UploadOutcomes :
               /\ workers' = [workers EXCEPT ![i].pc = "sleep",
                                  ![i].info = outcome.info,
                                  ![i].parsed = outcome.parsed]
               /\ json_file' = IF outcome.parsed # <<>> THEN outcome.parsed
                               ELSE json_file
    /\ UNCHANGED <<ui_screen, use_prefab_data, loading_event,
                   loading_start_time, progress_bar, notification_events,
                   ocr_text, home_parsed, persisted_parsed, persisted_info,
                   uploads, displays, last_shown, clock_posts, clock_events,
                   clock_intervals, now>>
    /\ UNCHANGED parse_vars

\* _process_image_background, second part: the worker reads
\* loading_start_time and sleeps out the rest of loading_duration
WorkerSleep ==
  \E i \in 1..Len(workers) :
    /\ workers[i].pc = "sleep"
    /\ workers' = [workers EXCEPT ![i].pc = IF loading_start_time = <<>>
                                            THEN "raised" ELSE "post"]
    /\ UNCHANGED <<ui_screen, use_prefab_data, loading_event,
                   loading_start_time, progress_bar, notification_events,
                   ocr_text, home_parsed, persisted_parsed, persisted_info,
                   json_file, uploads, displays, last_shown, clock_posts,
                   clock_events, clock_intervals, now>>
    /\ UNCHANGED parse_vars

\* Clock.schedule_once given two callbacks for one result
PostTwice(posts, i, info_, result) ==
    posts \o <<[upload |-> i, info |-> info_, parsed |-> result],
               [upload |-> i, info |-> info_, parsed |-> result]>>

\* Clock.schedule_once(lambda dt: self._display_results(info, parsed), 0)
Post(posts, i, info_, result) ==
    Append(posts, [upload |-> i, info |-> info_, parsed |-> result])

\* _process_image_background, last part: the worker posts the callback
WorkerPost ==
  \E i \in 1..Len(workers) :
    /\ workers[i].pc = "post"
    /\ clock_posts' = Post(clock_posts, i, workers[i].info, workers[i].parsed)
    /\ workers' = [workers EXCEPT ![i].pc = "done"]
    /\ UNCHANGED <<ui_screen, use_prefab_data, loading_event,
                   loading_start_time, progress_bar, notification_events,
                   ocr_text, home_parsed, persisted_parsed, persisted_info,
                   json_file, uploads, displays, last_shown, clock_events,
                   clock_intervals, now>>
    /\ UNCHANGED parse_vars

\* _display_results(info, parsed), called for the upload given (0: for the
\* saved shifts): the progress interval is cancelled, the result is held and
\* saved, the reminders are scheduled anew and the calendar is shown
DisplayResults(info_, result, upload) ==
    /\ clock_intervals' = CancelLoading(clock_intervals, loading_event)
    /\ loading_event' = 0
    /\ progress_bar' = IF progress_bar # <<>> THEN <<100>> ELSE progress_bar
    /\ ocr_text' = info_
    /\ home_parsed' = result
    /\ persisted_parsed' = result
    /\ persisted_info' = IF info_ = "" THEN "Saved shifts loaded." ELSE info_
    /\ json_file' = IF result # <<>> THEN result ELSE json_file
    /\ LET events == Reminders(result, now, displays + 1)
       IN  /\ notification_events' = events
           /\ clock_events' = CancelAll(clock_events, notification_events)
                                \cup {events[k] : k \in 1..Len(events)}
    /\ displays' = displays + 1
    /\ last_shown' = upload
    /\ ui_screen' = "results"

\* the Clock runs the callback a worker has posted
RunPosted ==
    /\ clock_posts # <<>>
    /\ DisplayResults(Head(clock_posts).info, Head(clock_posts).parsed,
                      Head(clock_posts).upload)
    /\ clock_posts' = Tail(clock_posts)
    /\ workers' = [workers EXCEPT ![Head(clock_posts).upload].shown = @ + 1]
    /\ UNCHANGED <<use_prefab_data, loading_start_time, uploads, now>>
    /\ UNCHANGED parse_vars

\* the start menu's "View Saved Shifts", enabled while persisted_parsed is set
ShowSavedShifts ==
    /\ ui_screen = "start"
    /\ persisted_parsed # <<>>
    /\ displays < MaxDisplays
    /\ DisplayResults(persisted_info, persisted_parsed, 0)
    /\ UNCHANGED <<use_prefab_data, loading_start_time, workers, uploads,
                   clock_posts, now>>
    /\ UNCHANGED parse_vars

\* the results view's "Upload Another": reset_ui
ResetUi ==
    /\ ui_screen = "results"
    /\ clock_events' = CancelAll(clock_events, notification_events)
    /\ notification_events' = <<>>
    /\ persisted_parsed' = LoadSavedOutputs(json_file, use_prefab_data).parsed
    /\ persisted_info' = LoadSavedOutputs(json_file, use_prefab_data).info
    /\ ui_screen' = "start"
    /\ UNCHANGED <<use_prefab_data, loading_event, loading_start_time,
                   progress_bar, ocr_text, home_parsed, json_file, workers,
                   uploads, displays, last_shown, clock_posts,
                   clock_intervals, now>>
    /\ UNCHANGED parse_vars

\* the Clock runs a reminder whose time has come: _show_notification opens
\* its popup
ShowNotification ==
    /\ \E event \in clock_events :
          /\ ~Before(now, event.at)
          /\ clock_events' = clock_events \ {event}
    /\ UNCHANGED <<ui_screen, use_prefab_data, loading_event,
                   loading_start_time, progress_bar, notification_events,
                   ocr_text, home_parsed, persisted_parsed, persisted_info,
                   json_file, workers, uploads, displays, last_shown,
                   clock_posts, clock_intervals>>
    /\ UNCHANGED now
    /\ UNCHANGED parse_vars

\* time passes
Tick ==
    /\ \E t \in Instants :
          /\ Before(now, t)
          /\ now' = t
    /\ UNCHANGED <<ui_screen, use_prefab_data, loading_event,
                   loading_start_time, progress_bar, notification_events,
                   ocr_text, home_parsed, persisted_parsed, persisted_info,
                   json_file, workers, uploads, displays, last_shown,
                   clock_posts, clock_events, clock_intervals>>
    /\ UNCHANGED parse_vars

\* the steps of the worker threads
WorkerSteps ==
    \/ WorkerProcess
    \/ WorkerSleep
    \/ WorkerPost

\* the steps of the UI thread: the user's presses and the Clock's callbacks
UiSteps ==
    \/ OpenFileChooser
    \/ CancelFile
    \/ SelectFile
    \/ LoadingProgress
    \/ RunPosted
    \/ ShowSavedShifts
    \/ ResetUi
    \/ ShowNotification

UiNext ==
    \/ UiSteps
    \/ WorkerSteps
    \/ Tick

UiSpec == UiInit /\ [][UiNext]_vars

(***************************************************************************)
(* Properties.  Each is stated on the state a step of the parse leaves     *)
(* behind; the variables it reads do not change afterwards.                *)
(***************************************************************************)
\* step 6 has just run: day_shift_map is final
CellsAssigned == pc = "build"

\* _bbox_map_parse has just built its records and returned them
RecordsBuilt == pc = "bbox_done" /\ bbox_ret = "parsed"

\* the nearest day of every shift-code token
NearestDays == [k \in 1..Len(shift_tokens) |-> ClosestDay(shift_tokens[k], day_x_map)]

\* C1: each day holds at most one assignment, and it is the code and the
\* confidence of one token of highest confidence among the shift-code tokens
\* nearest to that day; a day gets an assignment exactly when it has such a token
C1_HighestConfidenceWins ==
    CellsAssigned =>
        LET near == NearestDays
            OfDay(day) == {k \in 1..Len(shift_tokens) : near[k] = day}
        IN  /\ \A a, b \in 1..Len(day_shift_map) :
                  day_shift_map[a].day = day_shift_map[b].day => a = b
            /\ \A a \in 1..Len(day_shift_map) :
                  \E k \in OfDay(day_shift_map[a].day) :
                      /\ day_shift_map[a].code = FirstCode(shift_tokens[k].text)
                      /\ day_shift_map[a].conf = shift_tokens[k].conf
                      /\ \A j \in OfDay(day_shift_map[a].day) :
                            shift_tokens[j].conf <= shift_tokens[k].conf
            /\ \A k \in 1..Len(shift_tokens) :
                  \E a \in 1..Len(day_shift_map) : day_shift_map[a].day = near[k]

\* two tokens of one day, the later of lower confidence and of another code
C1_Witness ==
    /\ CellsAssigned
    /\ LET near == NearestDays
       IN  \E j, k \in 1..Len(shift_tokens) :
              /\ j < k
              /\ near[j] = near[k]
              /\ shift_tokens[k].conf < shift_tokens[j].conf
              /\ FirstCode(shift_tokens[k].text) # FirstCode(shift_tokens[j].text)

\* the number of days of month m of year y in the Gregorian calendar
MonthLength(y, m) ==
    CASE m \in {1, 3, 5, 7, 8, 10, 12} -> 31
      [] m \in {4, 6, 9, 11} -> 30
      [] m = 2 -> IF (y % 4 = 0 /\ y % 100 # 0) \/ y % 400 = 0 THEN 29 ELSE 28

\* the calendar day after (y, m, d)
NextDay(y, m, d) ==
    IF d < MonthLength(y, m) THEN <<y, m, d + 1>>
    ELSE IF m < 12 THEN <<y, m + 1, 1>>
    ELSE <<y + 1, 1, 1>>

\* the assignments of day_shift_map whose day exists in the parsed month
ValidAssignments ==
    {a \in 1..Len(day_shift_map) :
        day_shift_map[a].day \in 1..MonthLength(parsed[1].year, parsed[1].month)}

\* the records built for a day
RecordsOfDay(day) ==
    {r \in 1..Len(parsed[1].records) :
        parsed[1].records[r].date = FormatDate(parsed[1].year, parsed[1].month, day)}

\* C2: an overnight shift (endHour < startHour) on a valid day starts at
\* startHour:00 of that day, ends on the next calendar day 8 hours later, and
\* has hours = 8
C2_OvernightRecord ==
    RecordsBuilt =>
        \A a \in ValidAssignments :
            LET y == parsed[1].year
                m == parsed[1].month
                d == day_shift_map[a].day
                shift == SHIFT_MAP[day_shift_map[a].code]
                nxt == NextDay(y, m, d)
                endHour == shift.start_h + 8 - 24
            IN  shift.end_h < shift.start_h =>
                    /\ ToOrdinal(nxt[1], nxt[2], nxt[3]) = ToOrdinal(y, m, d) + 1
                    /\ endHour \in 0..23
                    /\ \E r \in RecordsOfDay(d) :
                          /\ parsed[1].records[r].shift_code = day_shift_map[a].code
                          /\ parsed[1].records[r].hours = 8
                          /\ parsed[1].records[r].start =
                                FormatDateTime([year |-> y, month |-> m, day |-> d,
                                                hour |-> shift.start_h, minute |-> 0])
                          /\ parsed[1].records[r].end =
                                FormatDateTime([year |-> nxt[1], month |-> nxt[2],
                                                day |-> nxt[3], hour |-> endHour,
                                                minute |-> 0])

\* a night shift on 31 December: the end falls in the next year
C2_Witness ==
    /\ RecordsBuilt
    /\ parsed[1].month = 12
    /\ \E r \in 1..Len(parsed[1].records) :
          /\ parsed[1].records[r].shift_code = "N"
          /\ parsed[1].records[r].start =
                <<"2","0","2","5","-","1","2","-","3","1"," ","2","2",":","0","0">>
          /\ parsed[1].records[r].end =
                <<"2","0","2","6","-","0","1","-","0","1"," ","0","6",":","0","0">>

\* C3: a shift with endHour >= startHour on a valid day starts at startHour:00
\* and ends at endHour:00 of that same day, with hours = endHour - startHour
C3_DayShiftRecord ==
    RecordsBuilt =>
        \A a \in ValidAssignments :
            LET y == parsed[1].year
                m == parsed[1].month
                d == day_shift_map[a].day
                shift == SHIFT_MAP[day_shift_map[a].code]
            IN  shift.end_h >= shift.start_h =>
                    \E r \in RecordsOfDay(d) :
                        /\ parsed[1].records[r].shift_code = day_shift_map[a].code
                        /\ parsed[1].records[r].hours = shift.end_h - shift.start_h
                        /\ parsed[1].records[r].start =
                              FormatDate(y, m, d) \o <<" ">>
                                  \o Digits(shift.start_h, 2) \o <<":", "0", "0">>
                        /\ parsed[1].records[r].end =
                              FormatDate(y, m, d) \o <<" ">>
                                  \o Digits(shift.end_h, 2) \o <<":", "0", "0">>

\* a morning shift on 29 February 2024
C3_Witness ==
    /\ RecordsBuilt
    /\ \E r \in 1..Len(parsed[1].records) :
          /\ parsed[1].records[r].shift_code = "M"
          /\ parsed[1].records[r].start =
                <<"2","0","2","4","-","0","2","-","2","9"," ","0","6",":","0","0">>
          /\ parsed[1].records[r].end =
                <<"2","0","2","4","-","0","2","-","2","9"," ","1","4",":","0","0">>
          /\ parsed[1].records[r].hours = 8

\* C4: a day that does not exist in the month gives no record and no error;
\* every assigned day that exists gives exactly one record
C4_InvalidDaySkipped ==
    /\ RecordsBuilt =>
          /\ Len(parsed[1].records) = Cardinality(ValidAssignments)
          /\ \A a \in 1..Len(day_shift_map) :
                Cardinality(RecordsOfDay(day_shift_map[a].day)) =
                    (IF a \in ValidAssignments THEN 1 ELSE 0)
    /\ pc = "build" => ENABLED BuildParsed
    /\ (pc = "bbox_done" /\ day_shift_map # <<>>) => bbox_ret = "parsed"

\* an assigned day that does not exist in the month, followed by one that does
C4_Witness ==
    /\ RecordsBuilt
    /\ \E a, b \in 1..Len(day_shift_map) :
          a < b /\ a \notin ValidAssignments /\ b \in ValidAssignments

\* a detection with fewer than 3 fields or a confidence that is no number
Malformed(d) == d.nfields < 3 \/ ~d.numeric

\* the detection list without its malformed detections
WellFormedOnly(r) == Pick(r, {k \in 1..Len(r) : ~Malformed(r[k])}, 1)

\* C5: a malformed detection alone is skipped: the call ends without an
\* exception of the parse, with the result the well-formed detections alone give
C5_MalformedSkipped ==
    (pc = "done" /\ \E k \in 1..Len(res) : Malformed(res[k])) =>
        /\ bbox_ret # "raised"
        /\ info # "error"
        /\ LET alone == BboxMapParse(WellFormedOnly(res), img_w,
                                     parsed[1].year, parsed[1].month)
           IN  parsed[1] = IF alone.ret = "parsed" THEN alone.parsed[1]
                           ELSE EmptyResult(parsed[1].year, parsed[1].month)

\* the full name or its first component, whatever the case, in a token's text
NameInText(t) ==
    \/ Contains(TARGET_NAME, Upper(t.text))
    \/ Contains(<<"N", "I", "N", "A">>, Upper(t.text))

\* ingestion ran to its end (no detection raised)
Ingested == ~IngestRaises(res)

\* C6: when ingestion retained no token that contains the target name or its
\* first component, _bbox_map_parse returns None without raising, and
\* parse_schedule returns person, year, month, days = 1..31 and no records
C6_PersonNotFound ==
    (/\ pc \in {"bbox_done", "ps_done", "done"}
     /\ Ingested
     /\ \A k \in 1..Len(tokens) : ~NameInText(tokens[k])) =>
        /\ bbox_ret = "None"
        /\ pc \in {"ps_done", "done"} =>
              /\ parsed # NoParsed
              /\ parsed[1].person = TARGET_NAME
              /\ <<parsed[1].year, parsed[1].month>> \in Todays
              /\ parsed[1].days = [i \in 1..31 |-> i]
              /\ parsed[1].records = <<>>
        /\ pc = "done" => info = "no shifts parsed"

\* tokens were retained, shift codes among them, and none names the person
C6_Witness ==
    /\ pc = "done"
    /\ bbox_ret = "None"
    /\ Len(tokens) >= 2
    /\ \E k \in 1..Len(tokens) : HasCode(tokens[k].text)
    /\ \A k \in 1..Len(tokens) : ~NameInText(tokens[k])

\* C7: an empty detection list: _bbox_map_parse returns None without raising
\* and without building a token, and parse_schedule returns the empty
\* structure, records = <<>>
C7_NoDetections ==
    (pc \in {"bbox_done", "ps_done", "done"} /\ res = <<>>) =>
        /\ bbox_ret = "None"
        /\ tokens = <<>>
        /\ debug_writes = <<>>
        /\ pc \in {"ps_done", "done"} =>
              /\ parsed # NoParsed
              /\ parsed[1].person = TARGET_NAME
              /\ <<parsed[1].year, parsed[1].month>> \in Todays
              /\ parsed[1].days = [i \in 1..31 |-> i]
              /\ parsed[1].records = <<>>
        /\ pc = "done" => info = "no shifts parsed"

\* the call has ended on an empty detection list
C7_Witness == pc = "done" /\ res = <<>> /\ parsed # NoParsed

\* the retained tokens that contain the full target name, whatever the case
FullNameMatches == {k \in 1..Len(tokens) : Contains(TARGET_NAME, Upper(tokens[k].text))}

\* the retained tokens that contain the first component of the name
FirstNameMatches ==
    {k \in 1..Len(tokens) : Contains(<<"N", "I", "N", "A">>, Upper(tokens[k].text))}

\* step 1 has just run: the candidates are chosen, the row selected or the
\* parse given up
CandidatesChosen ==
    \/ pc = "tolerance"
    \/ pc = "bbox_done" /\ bbox_ret = "None" /\ res # <<>>

\* C8: the candidates are the tokens containing the full name when there are
\* any, and the tokens containing the first name otherwise; the selected token
\* is a candidate, so never a first-name-only token while a full match exists
C8_CandidateSet ==
    CandidatesChosen =>
        /\ target_candidates =
              Pick(tokens, IF FullNameMatches # {} THEN FullNameMatches
                           ELSE FirstNameMatches, 1)
        /\ target # <<>> =>
              /\ \E k \in 1..Len(target_candidates) : target[1] = target_candidates[k]
              /\ FullNameMatches # {} => Contains(TARGET_NAME, Upper(target[1].text))
        /\ target = <<>> <=> target_candidates = <<>>

\* a full-name token of low confidence is selected although a first-name-only
\* token, written in lower case, has a higher confidence
C8_Witness ==
    /\ CandidatesChosen
    /\ target # <<>>
    /\ Contains(TARGET_NAME, Upper(target[1].text))
    /\ \E k \in FirstNameMatches \ FullNameMatches :
          /\ tokens[k].conf > target[1].conf
          /\ tokens[k].text # Upper(tokens[k].text)

\* step 4 has just run: day_x_map is final
AnchorsBuilt == pc = "assign"

\* the header tokens: retained tokens strictly above the row band whose text
\* holds a digit
HeaderTokens ==
    {k \in 1..Len(tokens) :
        /\ tokens[k].cy < target[1].cy - y_tol * YDen
        /\ \E c \in 1..Len(tokens[k].text) :
              tokens[k].text[c] \in {"0","1","2","3","4","5","6","7","8","9"}}

\* v is the i-th smallest cx (i counted from 1) among the tokens H
IsIthCx(H, v, i) ==
    /\ \E k \in H : tokens[k].cx = v
    /\ Cardinality({k \in H : tokens[k].cx < v}) < i
    /\ Cardinality({k \in H : tokens[k].cx <= v}) >= i

\* C9: the keys of the day-anchor map are the configured days; the anchor of
\* the day at index i is the cx of the i-th header token in cx order when
\* there is one and (i + 0.5) * imageWidth / 31 otherwise
C9_DayAnchors ==
    AnchorsBuilt =>
        LET H == HeaderTokens
            n == Cardinality(H)
        IN  /\ DOMAIN day_x_map = 1..31
            /\ \A d \in 1..31 :
                  IF d <= n
                  THEN IsIthCx(H, day_x_map[d], d)
                  ELSE day_x_map[d] * 2 * 31 = (2 * (d - 1) + 1) * img_w * XDen

\* two header tokens detected right to left, the other anchors synthesized
C9_Witness ==
    /\ AnchorsBuilt
    /\ \E j, k \in HeaderTokens : j < k /\ tokens[k].cx < tokens[j].cx
    /\ Cardinality(HeaderTokens) = 2

\* the tokens H have pairwise distinct cx
DistinctCx(H) == \A j, k \in H : tokens[j].cx = tokens[k].cx => j = k

\* C10 as stated: with header tokens of distinct cx the anchors increase with
\* the day over the whole day range, synthesized anchors included
C10_AnchorsMonotonic ==
    (AnchorsBuilt /\ DistinctCx(HeaderTokens)) =>
        \A d \in 1..30 : day_x_map[d] < day_x_map[d + 1]

\* C10 as amended: with header tokens of distinct cx the anchors increase with
\* the day among the days anchored on header tokens, and among the days with
\* synthesized anchors
C10_AnchorsMonotonicWithinKind ==
    (AnchorsBuilt /\ DistinctCx(HeaderTokens)) =>
        LET n == Cardinality(HeaderTokens)
        IN  \A d1, d2 \in 1..31 :
                (d1 < d2 /\ (d1 <= n) = (d2 <= n)) => day_x_map[d1] < day_x_map[d2]

\* two header tokens of distinct cx, detected right to left, and a first
\* synthesized anchor left of the last header token
C10_Witness ==
    /\ AnchorsBuilt
    /\ DistinctCx(HeaderTokens)
    /\ Cardinality(HeaderTokens) = 2
    /\ \E j, k \in HeaderTokens : j < k /\ tokens[k].cx < tokens[j].cx
    /\ day_x_map[1] < day_x_map[2]
    /\ day_x_map[3] < day_x_map[2]

\* step 2 has just run: y_tol and median_gap are final
ToleranceEstimated == pc = "anchors"

\* n is the integer nearest to the centre cy (a numerator over YDen), a centre
\* half way between two integers going to the even one
IsNearestRow(n, cy) ==
    LET twice == 2 * Abs(cy - n * YDen)
    IN  twice < YDen \/ (twice = YDen /\ n % 2 = 0)

\* the distinct rounded centres of the retained tokens
RoundedRows ==
    {n \in UNION {{tokens[k].cy \div YDen, (tokens[k].cy \div YDen) + 1} :
                     k \in 1..Len(tokens)} :
        \E k \in 1..Len(tokens) : IsNearestRow(n, tokens[k].cy)}

\* C11: with fewer than two distinct rounded row centres among the tokens the
\* row tolerance is exactly 35; with two or more it is never below 25.
C11_RowToleranceDefault ==
    ToleranceEstimated =>
        /\ Cardinality(RoundedRows) < 2 => y_tol = 35
        /\ Cardinality(RoundedRows) >= 2 => y_tol >= 25

\* the default is taken although two tokens have different centres: both round
\* to the same row
C11_Witness ==
    /\ ToleranceEstimated
    /\ Cardinality(RoundedRows) < 2
    /\ \E j, k \in 1..Len(tokens) : tokens[j].cy # tokens[k].cy
    /\ y_tol = 35

\* both tolerances of gap_lists are computed
GapsEstimated == gap_tols # <<>>

\* every gap of b is at least the gap of a at its place
GapsAtLeast(a, b) ==
    /\ Len(a) = Len(b)
    /\ \A k \in 1..Len(a) : a[k] <= b[k]

\* C12: of two gap lists of one length, the second at least the first gap by
\* gap (the first scaled by an integer k > 1, for one), the tolerance of the
\* second is at least the tolerance of the first.
C12_ToleranceMonotonic ==
    GapsEstimated /\ GapsAtLeast(gap_lists[1], gap_lists[2])
        => gap_tols[1] <= gap_tols[2]

\* the second list is the first scaled by 2, two gaps each, and the tolerance
\* has grown with it
C12_Witness ==
    /\ GapsEstimated
    /\ Len(gap_lists[1]) = 2
    /\ gap_lists[1][1] # gap_lists[1][2]
    /\ \A k \in 1..Len(gap_lists[1]) : gap_lists[2][k] = 2 * gap_lists[1][k]
    /\ gap_tols[1] < gap_tols[2]

\* the places in res of the detections whose confidence is at least 0.15
RetainedPlaces == {i \in 1..Len(res) : res[i].conf >= 15}

\* the place in res of the k-th of them
KthRetained(k) ==
    CHOOSE i \in RetainedPlaces : Cardinality({j \in RetainedPlaces : j < i}) = k - 1

\* token t is made of detection d: its confidence, its stripped text, the
\* centre of its box
MadeOf(t, d) ==
    /\ t.conf = d.conf
    /\ t.text = Strip(d.text)
    /\ 4 * t.cx = NumDays * YDen * (d.bbox[1][1] + d.bbox[2][1] + d.bbox[3][1] + d.bbox[4][1])
    /\ 4 * t.cy = YDen * (d.bbox[1][2] + d.bbox[2][2] + d.bbox[3][2] + d.bbox[4][2])

\* the rounded row centres of the detections of confidence 0.15 and more
RetainedRows ==
    {n \in UNION {{CenterY(res[i].bbox) \div YDen, (CenterY(res[i].bbox) \div YDen) + 1} :
                     i \in RetainedPlaces} :
        \E i \in RetainedPlaces : IsNearestRow(n, CenterY(res[i].bbox))}

\* C13: a detection of confidence below 0.15 never becomes a token, one of
\* exactly 0.15 does: the tokens are the detections of confidence 0.15 and
\* more, in order; so the person row, the row centres of the tolerance and
\* the shift assignments all come from such detections.
C13_ConfidenceFilter ==
    /\ pc = "locate" =>
          /\ Len(tokens) = Cardinality(RetainedPlaces)
          /\ \A k \in 1..Len(tokens) : MadeOf(tokens[k], res[KthRetained(k)])
    /\ CellsAssigned =>
          /\ target[1].conf >= 15
          /\ \E i \in RetainedPlaces : MadeOf(target[1], res[i])
          /\ Cardinality(RetainedRows) < 2 => y_tol = 35
          /\ \A k \in 1..Len(day_shift_map) :
                /\ day_shift_map[k].conf >= 15
                /\ \E i \in RetainedPlaces :
                      /\ res[i].conf = day_shift_map[k].conf
                      /\ HasCode(res[i].text)

\* a parse of a detection below the minimum, which names the person, lies on
\* a row of its own and carries a code, and of a detection exactly at the
\* minimum, which became the person row
C13_Witness ==
    /\ CellsAssigned
    /\ \E i \in 1..Len(res) :
          /\ res[i].conf < 15
          /\ Contains(<<"N", "I", "N", "A">>, Upper(res[i].text))
          /\ HasCode(res[i].text)
          /\ \A j \in RetainedPlaces : CenterY(res[j].bbox) # CenterY(res[i].bbox)
    /\ target[1].conf = 15
    /\ Len(tokens) < Len(res)

\* the second of two calls on the same detections and image width has returned
SecondCallDone == pc = "done" /\ prior # <<>>

\* the set of the records of a returned structure
RecordSet(p) == {p.records[k] : k \in 1..Len(p.records)}

C15_DebugWrittenOnce ==
    /\ bbox_ret = "parsed" => debug_writes = << <<tokens, parsed[1]>> >>
    /\ bbox_ret # "parsed" => debug_writes = <<>>

\* process_image has returned a parse with records, and the one write holds
\* them
C15_Witness ==
    /\ pc = "done"
    /\ bbox_ret = "parsed"
    /\ Len(debug_writes) = 1
    /\ debug_writes[1][2].records # <<>>
    /\ debug_writes[1][1] # <<>>

\* the uppercased text of a token contains a character of the shift-code alphabet
CarriesCode(t) == \E i \in 1..Len(t.text) : Upper(t.text)[i] \in {"M", "T", "N"}

\* the tokens collected as shift-code tokens
Collected == {shift_tokens[k] : k \in 1..Len(shift_tokens)}

\* the row band, in numerators over YDen
BandLow == target[1].cy - y_tol * YDen
BandHigh == target[1].cy + y_tol * YDen

GapRows == {r \in RoundedRows : \E n \in RoundedRows : n > r}

\* the gap from row r to the next row
GapAfter(r) ==
    (CHOOSE n \in RoundedRows : n > r /\ \A m \in RoundedRows : m > r => n <= m) - r

\* g stands at place i, counted from 0, of the gaps sorted ascending
IsSortedGapAt(g, i) ==
    /\ Cardinality({r \in GapRows : GapAfter(r) < g}) <= i
    /\ i < Cardinality({r \in GapRows : GapAfter(r) <= g})

\* C17 as claimed: with two or more distinct rounded row centres, median_gap
\* is the middle element of the sorted successive gaps, the lower of the two
\* middle ones when their number is even (g1 of two gaps g1 <= g2).
C17_MedianLowerMiddle ==
    ToleranceEstimated /\ GapRows # {} =>
        /\ Len(median_gap) = 1
        /\ IsSortedGapAt(median_gap[1], (Cardinality(GapRows) - 1) \div 2)

\* C17 as amended: with two or more distinct rounded row centres, median_gap
\* is the middle element of the sorted successive gaps, the upper of the two
\* middle ones when their number is even (g2 of two gaps g1 <= g2).
C17_MedianUpperMiddle ==
    ToleranceEstimated /\ GapRows # {} =>
        /\ Len(median_gap) = 1
        /\ IsSortedGapAt(median_gap[1], Cardinality(GapRows) \div 2)

\* two different gaps, the larger taken, and the tolerance above the floor
\* the smaller would have given
C17_Witness ==
    /\ ToleranceEstimated
    /\ Cardinality(GapRows) = 2
    /\ \E r \in GapRows : GapAfter(r) < median_gap[1]
    /\ \A r \in GapRows : GapAfter(r) <= median_gap[1]
    /\ y_tol > 25

\* the larger of 25 and n
AtLeast25(n) == IF n > 25 THEN n ELSE 25

\* C18 as claimed: for the median gap g, the row tolerance is
\* max(25, round(0.8 * g)), 0.8 * g rounded to the nearest integer
\* (g = 37 gives 30).  0.8 * g never lies half way between two integers.
C18_ToleranceRounded ==
    ToleranceEstimated /\ median_gap # <<>> =>
        \E n \in 0..median_gap[1] :
            /\ 2 * Abs(10 * n - 8 * median_gap[1]) < 10
            /\ y_tol = AtLeast25(n)

\* C18 as amended: for the median gap g, the row tolerance is
\* max(25, int(0.8 * g)), 0.8 * g truncated to an integer (g = 37 gives 29).
C18_ToleranceTruncated ==
    ToleranceEstimated /\ median_gap # <<>> =>
        \E n \in 0..median_gap[1] :
            /\ 10 * n <= 8 * median_gap[1]
            /\ 8 * median_gap[1] < 10 * (n + 1)
            /\ y_tol = AtLeast25(n)

\* the median gap is 37: 0.8 * 37 = 29.6, and the tolerance is 29
C18_Witness ==
    /\ ToleranceEstimated
    /\ median_gap = <<37>>
    /\ y_tol = 29

\* step 1 has just selected the person row
RowLocated == pc = "tolerance"

\* the places in tokens of the candidate person tokens
CandidatePlaces == IF FullNameMatches # {} THEN FullNameMatches ELSE FirstNameMatches

\* C19: the selected person token is the candidate of highest confidence,
\* and of several candidates sharing the highest confidence the first in
\* detection order; its cy is the targetY every later step uses.
C19_RowSelection ==
    RowLocated =>
        \E i \in CandidatePlaces :
            /\ target[1] = tokens[i]
            /\ \A j \in CandidatePlaces : tokens[j].conf <= tokens[i].conf
            /\ \A j \in CandidatePlaces : j < i => tokens[j].conf < tokens[i].conf

\* two candidates on different centres share the highest confidence, and the
\* earlier one is selected
C19_Witness ==
    /\ RowLocated
    /\ \E i, j \in CandidatePlaces :
          /\ i < j
          /\ tokens[i].conf = tokens[j].conf
          /\ tokens[i].cy # tokens[j].cy
          /\ \A k \in CandidatePlaces : tokens[k].conf <= tokens[i].conf
          /\ target[1] = tokens[i]

\* the distance of token t to the anchor of each day, by the day's place in
\* the configured day list
AnchorDistances(t) == [i \in 1..Len(days) |-> Abs(t.cx - day_x_map[days[i]])]

\* place i of the day list is the first of the smallest distance in dist
IsFirstNearest(dist, i) ==
    /\ \A j \in 1..Len(days) : dist[i] <= dist[j]
    /\ \A j \in 1..(i - 1) : dist[j] > dist[i]

\* the day token t belongs to
FirstNearestDay(t) ==
    LET dist == AnchorDistances(t)
    IN  days[CHOOSE i \in 1..Len(days) : IsFirstNearest(dist, i)]

\* the day of each shift-code token, in the order of shift_tokens
TokenDays ==
    LET F[k \in 0..Len(shift_tokens)] ==
            IF k = 0 THEN <<>>
            ELSE LET prev == F[k - 1]
                 IN  Append(prev, FirstNearestDay(shift_tokens[k]))
    IN  F[Len(shift_tokens)]

\* C20: every shift-code token is assigned to a day whose anchor is nearest
\* to its cx among all configured days, the first such day of the day list
\* when several anchors are equally near: the days holding an assignment are
\* those days of the shift-code tokens, each with the code and confidence of
\* one of its tokens.
C20_NearestAnchor ==
    CellsAssigned =>
        LET own == TokenDays
        IN  /\ \A k \in 1..Len(shift_tokens) :
                  \E a \in 1..Len(day_shift_map) :
                      /\ day_shift_map[a].day = own[k]
                      /\ day_shift_map[a].conf >= shift_tokens[k].conf
            /\ \A a \in 1..Len(day_shift_map) :
                  \E k \in 1..Len(shift_tokens) :
                      /\ own[k] = day_shift_map[a].day
                      /\ day_shift_map[a].conf = shift_tokens[k].conf
                      /\ day_shift_map[a].code \in
                             {shift_tokens[k].text[i] : i \in 1..Len(shift_tokens[k].text)}
                             \cup {Upper(shift_tokens[k].text)[i] :
                                      i \in 1..Len(shift_tokens[k].text)}

\* a token as near to the anchor of one day as to the different anchor of a
\* later day: the earlier day holds its assignment, the later day none
C20_Witness ==
    /\ CellsAssigned
    /\ \E k \in 1..Len(shift_tokens) :
          LET dist == AnchorDistances(shift_tokens[k])
          IN  \E i, j \in 1..Len(days) :
                /\ i < j
                /\ IsFirstNearest(dist, i)
                /\ dist[j] = dist[i]
                /\ day_x_map[days[i]] # day_x_map[days[j]]
                /\ \E a \in 1..Len(day_shift_map) : day_shift_map[a].day = days[i]
                /\ \A a \in 1..Len(day_shift_map) : day_shift_map[a].day # days[j]

\* the places of the uppercased text that hold a character of the alphabet
AlphabetPlaces(text) == {i \in 1..Len(text) : Upper(text)[i] \in {"M", "T", "N"}}

\* c is the first character of the alphabet in the uppercased text
IsFirstAlphabetChar(c, text) ==
    \E i \in AlphabetPlaces(text) :
        /\ c = Upper(text)[i]
        /\ \A j \in AlphabetPlaces(text) : i <= j

\* the shift-code token whose assignment a day holds in the end: the first
\* of the highest confidence among the tokens of that day
IsWinnerOfDay(k, day, own) ==
    /\ own[k] = day
    /\ \A j \in 1..Len(shift_tokens) :
          own[j] = day =>
              /\ shift_tokens[j].conf <= shift_tokens[k].conf
              /\ j < k => shift_tokens[j].conf < shift_tokens[k].conf

\* C21: the code stored for a day is the first character of {M, T, N} in the
\* uppercased text of the token that holds the day, whatever alphabet
\* characters follow it, and it is a key of the shift-code table.
C21_FirstCodeCharacter ==
    CellsAssigned =>
        LET own == TokenDays
        IN  \A a \in 1..Len(day_shift_map) :
                /\ day_shift_map[a].code \in {"M", "T", "N"}
                /\ day_shift_map[a].code \in DOMAIN SHIFT_MAP
                /\ \E k \in 1..Len(shift_tokens) :
                      /\ IsWinnerOfDay(k, day_shift_map[a].day, own)
                      /\ IsFirstAlphabetChar(day_shift_map[a].code,
                                             shift_tokens[k].text)

\* a day holds the first of two different alphabet characters of its token,
\* written in lower case
C21_Witness ==
    /\ CellsAssigned
    /\ LET own == TokenDays
       IN  \E a \in 1..Len(day_shift_map), k \in 1..Len(shift_tokens) :
              /\ IsWinnerOfDay(k, day_shift_map[a].day, own)
              /\ \E i, j \in AlphabetPlaces(shift_tokens[k].text) :
                    /\ i < j
                    /\ Upper(shift_tokens[k].text)[i] # Upper(shift_tokens[k].text)[j]
                    /\ shift_tokens[k].text[i] # Upper(shift_tokens[k].text)[i]
                    /\ day_shift_map[a].code = Upper(shift_tokens[k].text)[i]

\* the value of a decimal digit character
DigitValue(c) == CHOOSE d \in 0..9 : DigitChars[d + 1] = c

\* the day of the month of a record, read from the end of its date
DayOfRecord(r) == 10 * DigitValue(r.date[Len(r.date) - 1]) + DigitValue(r.date[Len(r.date)])

\* the place in shift_tokens of the first token of a day
FirstTokenOfDay(day, own) ==
    CHOOSE k \in 1..Len(shift_tokens) :
        own[k] = day /\ \A j \in 1..(k - 1) : own[j] # day

\* C22: the records are those of the assigned days that exist in the month,
\* one each, in the order in which the days first received an assignment
\* while the shift-code tokens were scanned in detection order; neither a
\* later replacement nor a skipped day changes that order.
C22_RecordOrder ==
    RecordsBuilt =>
        LET own == TokenDays
            recs == parsed[1].records
            rday == [a \in 1..Len(recs) |-> DayOfRecord(recs[a])]
        IN  /\ {rday[a] : a \in 1..Len(recs)} =
                  {d \in {own[k] : k \in 1..Len(shift_tokens)} :
                      d <= MonthLength(parsed[1].year, parsed[1].month)}
            /\ \A a, b \in 1..Len(recs) :
                  a < b => FirstTokenOfDay(rday[a], own) < FirstTokenOfDay(rday[b], own)

\* the first record is of a later day than the second although the first
\* record's assignment was replaced by a token scanned after the second
\* record's day had received its own
C22_Witness ==
    /\ RecordsBuilt
    /\ Len(parsed[1].records) = 2
    /\ DayOfRecord(parsed[1].records[1]) > DayOfRecord(parsed[1].records[2])
    /\ LET own == TokenDays
       IN  \E k \in 1..Len(shift_tokens) :
              /\ own[k] = DayOfRecord(parsed[1].records[1])
              /\ k > FirstTokenOfDay(DayOfRecord(parsed[1].records[2]), own)
              /\ shift_tokens[k].conf = day_shift_map[1].conf
              /\ shift_tokens[FirstTokenOfDay(own[k], own)].conf < shift_tokens[k].conf

\* the day whose anchor is nearest the selected person token
TargetDay == FirstNearestDay(target[1])

\* the place of the person token among the shift-code tokens
TargetPlace == CHOOSE k \in 1..Len(shift_tokens) :
                  /\ shift_tokens[k] = target[1]
                  /\ \A j \in 1..(k - 1) : shift_tokens[j] # target[1]

\* the other shift-code tokens of the person token's day
RivalsOfTarget ==
    {k \in 1..Len(shift_tokens) : shift_tokens[k] # target[1]
                                    /\ FirstNearestDay(shift_tokens[k]) = TargetDay}

\* a record of the person token's day carrying the person token's code
TargetRecord ==
    \E a \in 1..Len(parsed[1].records) :
        /\ DayOfRecord(parsed[1].records[a]) = TargetDay
        /\ IsFirstAlphabetChar(parsed[1].records[a].shift_code, target[1].text)

\* C23 as claimed: the person token lies in the row band, so with a code
\* character in its text it is a shift-code token of the day nearest its cx
\* and yields a record of that day unless another shift-code token of the
\* day has a strictly higher confidence.
C23_PersonTokenRecord ==
    RecordsBuilt /\ CarriesCode(target[1]) =>
        /\ target[1] \in Collected
        /\ \E a \in 1..Len(day_shift_map) : day_shift_map[a].day = TargetDay
        /\ (\A k \in RivalsOfTarget : shift_tokens[k].conf <= target[1].conf)
              => TargetRecord

\* C23 as amended: the person token lies in the row band, so with a code
\* character in its text it is a shift-code token of the day nearest its cx;
\* it yields a record of that day if the day exists in the month of the run
\* and no other shift-code token of the day has a strictly higher
\* confidence, or the same confidence and an earlier place in detection order.
C23_PersonTokenRecordIfValid ==
    RecordsBuilt /\ CarriesCode(target[1]) =>
        /\ target[1] \in Collected
        /\ \E a \in 1..Len(day_shift_map) : day_shift_map[a].day = TargetDay
        /\ (/\ TargetDay <= MonthLength(parsed[1].year, parsed[1].month)
             /\ \A k \in RivalsOfTarget :
                   \/ shift_tokens[k].conf < target[1].conf
                   \/ shift_tokens[k].conf = target[1].conf /\ k > TargetPlace)
              => TargetRecord

\* the person token holds day 31 against a later token of the same
\* confidence and another code, and the month has a day 31
C23_Witness ==
    /\ RecordsBuilt
    /\ TargetRecord
    /\ TargetDay = 31
    /\ \E k \in RivalsOfTarget :
          /\ k > TargetPlace
          /\ shift_tokens[k].conf = target[1].conf
          /\ ~IsFirstAlphabetChar("N", shift_tokens[k].text)

\* the events HomeScreen lists as scheduled
ListedEvents == {notification_events[k] : k \in 1..Len(notification_events)}

\* the minute of the day of an instant
MinuteOfDay(t) == t.hour * 60 + t.minute

\* the event reminds of the record: the record carries a known shift code and
\* the event is due on the record's date, 45 minutes before the hour at which
\* shifts of that code start
IsReminderOf(e, r) ==
    /\ e.rec = r
    /\ r.shift_code \in DOMAIN SHIFT_MAP
    /\ r.date = FormatDate(e.at.year, e.at.month, e.at.day)
    /\ MinuteOfDay(e.at) + ReminderLeadMinutes = SHIFT_MAP[r.shift_code].start_h * 60

\* C24: every listed reminder event was scheduled from a record of the
\* result HomeScreen holds, is due 45 minutes before that shift starts and
\* was due in the future when it was scheduled; no reminder is pending that
\* is not listed, the ones listed and pending all stem from the latest
\* display, and while the start menu, the file chooser or the loading state
\* is shown (after a reset or a new upload) none is listed or pending.
C24_Reminders ==
    /\ \A e \in ListedEvents :
          /\ home_parsed # <<>>
          /\ \E j \in 1..Len(home_parsed[1].records) :
                IsReminderOf(e, home_parsed[1].records[j])
          /\ Before(e.made, e.at)
    /\ clock_events \subseteq ListedEvents
    /\ \A e \in ListedEvents : e.by = displays
    /\ ui_screen \in {"start", "chooser", "loading"} =>
          ListedEvents = {} /\ clock_events = {}

\* a result shown after an upload and after an earlier display: reminders of
\* it are pending, and one of its records was left out as already due
C24_Witness ==
    /\ ui_screen = "results"
    /\ displays >= 2
    /\ last_shown >= 1
    /\ clock_events # {}
    /\ Len(notification_events) < Len(home_parsed[1].records)

\* the state only the UI thread may write
ui_owned == <<ocr_text, home_parsed, persisted_parsed, persisted_info,
              notification_events, ui_screen, progress_bar, loading_event,
              loading_start_time, clock_events, clock_intervals>>

\* the callbacks of upload i that are posted and not yet run
PostedFor(i) == {k \in 1..Len(clock_posts) : clock_posts[k].upload = i}

\* the hand-off of upload i as a state shows it: one callback, posted once
\* the worker is through and carrying its result; the loading state until the
\* callback has run; right after it the progress interval cancelled and the
\* result held
HandedOff(i) ==
    LET w == workers[i]
    IN  /\ w.pc \in {"run", "sleep", "post", "done"}
        /\ Cardinality(PostedFor(i)) + w.shown = IF w.pc = "done" THEN 1 ELSE 0
        /\ \A k \in PostedFor(i) : clock_posts[k].parsed = w.parsed
        /\ w.shown = 0 =>
              /\ ui_screen = "loading"
              /\ loading_event = i
              /\ progress_bar # <<>>
        /\ (w.shown = 1 /\ last_shown = i /\ ui_screen = "results") =>
              /\ loading_event = 0
              /\ i \notin clock_intervals
              /\ home_parsed = w.parsed

====
